---- MODULE Spec2Model ----
(***************************************************************************)
(* Model of the MyFitness application's data layer:                        *)
(*   - the reconciliation routines of the YandexAPI class                  *)
(*     (js/modules/yandex-api.js): mergeData, mergeWorkouts,               *)
(*     mergeRecentExercises, mergeBodyAnalyses;                            *)
(*   - its network methods createFolder, uploadFile, downloadFile,         *)
(*     syncData, loadData against the remote disk;                         *)
(*   - the StorageManager (js/modules/storage.js) over localStorage and    *)
(*     the recent list of the ExerciseManager (js/modules/exercises.js);   *)
(*   - the workout validator (js/utils/validator.js).                      *)
(*   - the selection of the ExerciseManager, the session of YandexAPI      *)
(*     (init, handleOAuthCallback, getUserInfo, logout), loadConfig and    *)
(*     saveConfig, and BodyAnalysisManager.saveAnalysis.                   *)
(* Each part has its own specification over the same variables.            *)
(*                                                                         *)
(* JavaScript values are modelled as follows.                              *)
(*   - arrays are sequences;                                               *)
(*   - a Map is a sequence of [key, value] entries in insertion order      *)
(*     (Map.prototype.set on an existing key keeps the entry's position);  *)
(*   - a Set is a sequence of values in insertion order;                   *)
(*   - an object is a record whose domain is the set of its own           *)
(*     properties, so a record without "updatedAt" has no such property;   *)
(*   - undefined and null in a string-valued slot are the strings          *)
(*     Undefined and Null; a null dataset argument is the record NoData;   *)
(*   - exercise names are numbers, the index of the name in the catalogue; *)
(*   - a Date is a record [nan, t]: nan for an Invalid Date, t the time    *)
(*     value in seconds since the epoch.                                   *)
(***************************************************************************)
EXTENDS Integers, Sequences, FiniteSets, TLC

VARIABLES
    fn,               \* the reconciler method the caller invokes
    pc,               \* "ready" before the call, "returned" after it
    localWorkouts,    \* argument arrays of mergeWorkouts, as the caller holds them
    remoteWorkouts,
    localRecent,      \* argument arrays of mergeRecentExercises
    remoteRecent,
    localAnalyses,    \* argument arrays of mergeBodyAnalyses
    remoteAnalyses,
    localData,        \* arguments of mergeData (a dataset object or Null)
    remoteData,
    ret,              \* the value the call returned
    token,            \* YandexAPI.token
    userInfo,         \* YandexAPI.userInfo
    isAuthenticated,  \* YandexAPI.isAuthenticated
    localStorage,     \* window.localStorage, key -> stored value
    calls,            \* the syncData / loadData invocations in progress
    remoteFile,       \* the file at the remote path on the disk, or NoFile
    remoteFolder,     \* whether the remote folder exists on the disk
    requests,         \* the PUTs the disk has completed so far, in order
    storage,          \* the StorageManager singleton's fields
    exerciseManager,  \* the ExerciseManager singleton's fields
    history,          \* the names added to the recent lists so far, in order
    workoutArg,       \* argument of validateWorkout
    locationHash      \* window.location.hash, as the parameters URLSearchParams reads from it

args == <<localWorkouts, remoteWorkouts, localRecent, remoteRecent,
          localAnalyses, remoteAnalyses, localData, remoteData>>

apiState == <<token, userInfo, isAuthenticated>>

diskState == <<remoteFile, remoteFolder>>

netState == <<calls, remoteFile, remoteFolder, requests>>

managerState == <<storage, exerciseManager, history>>

appState == <<netState, managerState, workoutArg, locationHash>>

vars == <<fn, pc, localWorkouts, remoteWorkouts, localRecent, remoteRecent,
          localAnalyses, remoteAnalyses, localData, remoteData, ret,
          token, userInfo, isAuthenticated, localStorage, appState>>

----------------------------------------------------------------------------
(* JavaScript values *)

Undefined == "<undefined>"

Null == "<null>"

\* null where a dataset object is expected
NoData == [null |-> TRUE]

\* !data for a dataset object or null
IsNull(data) == "null" \in DOMAIN data

\* o[name]: the property, or undefined when the object has none
Prop(o, name) == IF name \in DOMAIN o THEN o[name] ELSE Undefined

\* ToBoolean on string-valued slots: undefined, null and "" are falsy
Truthy(x) == x \notin {Undefined, Null, ""}

\* a || b
Or(a, b) == IF Truthy(a) THEN a ELSE b

\* o[name] || [] for an array-valued property (every array is truthy)
PropOrEmpty(o, name) == IF name \in DOMAIN o THEN o[name] ELSE <<>>

InvalidDate == [nan |-> TRUE, t |-> 0]

\* Date.parse on the date strings of the model, in seconds since the epoch.
\* A date-only ISO string is taken as UTC midnight, so "2024-01-01" and
\* "2024-01-01T00:00:00.000Z" are two spellings of one instant.
DateParse(s) ==
    CASE s = "2024-01-01"               -> [nan |-> FALSE, t |-> 1704067200]
      [] s = "2024-01-01T00:00:00.000Z" -> [nan |-> FALSE, t |-> 1704067200]
      [] s = "2024-01-03T12:00:00.000Z" -> [nan |-> FALSE, t |-> 1704283200]
      [] s = "2024-01-05"               -> [nan |-> FALSE, t |-> 1704412800]
      [] OTHER                          -> InvalidDate

\* new Date(x) for a string or undefined
NewDate(x) == IF x = Undefined THEN InvalidDate ELSE DateParse(x)

\* d1 >= d2 in place of d1 > d2
DateGTOrEqual(d1, d2) == ~d1.nan /\ ~d2.nan /\ d1.t >= d2.t

\* d1 > d2 on Dates: a comparison with NaN is false
DateGT(d1, d2) == ~d1.nan /\ ~d2.nan /\ d1.t > d2.t

\* d1 - d2 on Dates, as the sort comparator's result; Array.prototype.sort
\* takes a NaN result as +0
DateDiff(d1, d2) == IF d1.nan \/ d2.nan THEN 0 ELSE d1.t - d2.t

----------------------------------------------------------------------------
(* Map and Set, in insertion order *)

MapKeys(m) == {m[i].key : i \in 1..Len(m)}

\* Map.prototype.get(k) is not undefined. Every value the merges store is an
\* object, hence truthy, so !map.get(k) is exactly ~MapHas(map, k).
MapHas(m, k) == k \in MapKeys(m)

\* Map.prototype.get for a key the map has
MapGet(m, k) == LET i == CHOOSE j \in 1..Len(m) : m[j].key = k IN m[i].value

\* Map.prototype.set: replace in place, or append
MapSet(m, k, v) ==
    IF MapHas(m, k)
    THEN [i \in 1..Len(m) |-> IF m[i].key = k THEN [key |-> k, value |-> v] ELSE m[i]]
    ELSE Append(m, [key |-> k, value |-> v])

\* Array.from(map.values())
MapValues(m) == [i \in 1..Len(m) |-> m[i].value]

Range(arr) == {arr[i] : i \in 1..Len(arr)}

\* Array.prototype.push in place of Set.prototype.add
SetAddAsPush(set, x) == Append(set, x)

\* Set.prototype.add
SetAdd(set, x) == IF x \in Range(set) THEN set ELSE Append(set, x)

\* arr.slice(0, n)
SliceFirst(arr, n) == SubSeq(arr, 1, IF Len(arr) < n THEN Len(arr) ELSE n)

----------------------------------------------------------------------------
(* Array.prototype.sort, stable (ECMAScript 2019), with the comparator both  *)
(* merges pass: (a, b) => new Date(b[field]) - new Date(a[field]).          *)
(* Each element is inserted after the last element it does not precede.     *)

\* the comparator with its operands exchanged: oldest first
CompareDateAsc(a, b, field) ==
    DateDiff(NewDate(Prop(a, field)), NewDate(Prop(b, field)))

CompareDateDesc(a, b, field) ==
    DateDiff(NewDate(Prop(b, field)), NewDate(Prop(a, field)))

RECURSIVE InsertSorted(_, _, _)
InsertSorted(sorted, x, field) ==
    IF sorted = <<>> THEN <<x>>
    ELSE IF CompareDateDesc(sorted[Len(sorted)], x, field) <= 0
         THEN Append(sorted, x)
         ELSE Append(InsertSorted(SubSeq(sorted, 1, Len(sorted) - 1), x, field),
                     sorted[Len(sorted)])

RECURSIVE SortFrom(_, _, _, _)
SortFrom(arr, i, acc, field) ==
    IF i > Len(arr) THEN acc
    ELSE SortFrom(arr, i + 1, InsertSorted(acc, arr[i], field), field)

SortByDateDesc(arr, field) == SortFrom(arr, 1, <<>>, field)

----------------------------------------------------------------------------
(* mergeWorkouts *)

\* localWorkouts.forEach(workout => workoutMap.set(workout.id, workout))
RECURSIVE SetLocalWorkouts(_, _, _)
SetLocalWorkouts(workoutMap, localW, i) ==
    IF i > Len(localW) THEN workoutMap
    ELSE SetLocalWorkouts(MapSet(workoutMap, Prop(localW[i], "id"), localW[i]),
                          localW, i + 1)

\* new Date(w.updatedAt), without the fallback to date
WorkoutUpdateDateNoFallback(w) == NewDate(Prop(w, "updatedAt"))

\* new Date(w.updatedAt || w.date)
WorkoutUpdateDate(w) == NewDate(Or(Prop(w, "updatedAt"), Prop(w, "date")))

\* the comparison taken as true for every pair: the remote record replaces
\* the existing one whatever their dates
RemoteWorkoutAlwaysNewer(workout, existing) == TRUE

\* remoteDate > existingDate
RemoteWorkoutNewer(workout, existing) ==
    DateGT(WorkoutUpdateDate(workout), WorkoutUpdateDate(existing))

\* the forEach body without its "new workout" branch
MergeRemoteWorkoutDropNew(workoutMap, workout) ==
    LET id == Prop(workout, "id") IN
    IF ~MapHas(workoutMap, id)
    THEN workoutMap
    ELSE IF RemoteWorkoutNewer(workout, MapGet(workoutMap, id))
         THEN MapSet(workoutMap, id, workout)
         ELSE workoutMap

\* the body of remoteWorkouts.forEach for one remote workout
MergeRemoteWorkout(workoutMap, workout) ==
    LET id == Prop(workout, "id") IN
    IF ~MapHas(workoutMap, id)
    THEN MapSet(workoutMap, id, workout)
    ELSE IF RemoteWorkoutNewer(workout, MapGet(workoutMap, id))
         THEN MapSet(workoutMap, id, workout)
         ELSE workoutMap

\* the remote pass collecting every remote workout without looking up its id
RECURSIVE MergeRemoteWorkoutsAppendAll(_, _, _)
MergeRemoteWorkoutsAppendAll(workoutMap, remoteW, i) ==
    IF i > Len(remoteW) THEN workoutMap
    ELSE MergeRemoteWorkoutsAppendAll(
             Append(workoutMap, [key |-> Prop(remoteW[i], "id"), value |-> remoteW[i]]),
             remoteW, i + 1)

RECURSIVE MergeRemoteWorkouts(_, _, _)
MergeRemoteWorkouts(workoutMap, remoteW, i) ==
    IF i > Len(remoteW) THEN workoutMap
    ELSE MergeRemoteWorkouts(MergeRemoteWorkout(workoutMap, remoteW[i]), remoteW, i + 1)

\* Array.from(workoutMap.values()).sort(...)
SortWorkouts(arr) == SortByDateDesc(arr, "date")

mergeWorkouts(localW, remoteW) ==
    LET workoutMap == MergeRemoteWorkouts(SetLocalWorkouts(<<>>, localW, 1), remoteW, 1)
    IN  SortWorkouts(MapValues(workoutMap))

----------------------------------------------------------------------------
(* mergeRecentExercises *)

\* [...localRecent, ...remoteRecent].forEach(exercise => exerciseSet.add(exercise))
RECURSIVE AddAllExercises(_, _, _)
AddAllExercises(exerciseSet, all, i) ==
    IF i > Len(all) THEN exerciseSet
    ELSE AddAllExercises(SetAdd(exerciseSet, all[i]), all, i + 1)

\* the 10 of slice(0, 10)
RecentLimit == 10

\* the spread in the other order: [...remoteRecent, ...localRecent]
mergeRecentExercisesRemoteFirst(localR, remoteR) ==
    SliceFirst(AddAllExercises(<<>>, remoteR \o localR, 1), RecentLimit)

mergeRecentExercises(localR, remoteR) ==
    SliceFirst(AddAllExercises(<<>>, localR \o remoteR, 1), RecentLimit)

----------------------------------------------------------------------------
(* mergeBodyAnalyses *)

RECURSIVE SetLocalAnalyses(_, _, _)
SetLocalAnalyses(analysisMap, localA, i) ==
    IF i > Len(localA) THEN analysisMap
    ELSE SetLocalAnalyses(MapSet(analysisMap, Prop(localA[i], "id"), localA[i]),
                          localA, i + 1)

\* remoteDate < existingDate in place of remoteDate > existingDate
RemoteAnalysisOlder(analysis, existing) ==
    DateGT(NewDate(Prop(existing, "timestamp")), NewDate(Prop(analysis, "timestamp")))

\* remoteDate > existingDate, both from the timestamp property
RemoteAnalysisNewer(analysis, existing) ==
    DateGT(NewDate(Prop(analysis, "timestamp")), NewDate(Prop(existing, "timestamp")))

MergeRemoteAnalysis(analysisMap, analysis) ==
    LET id == Prop(analysis, "id") IN
    IF ~MapHas(analysisMap, id)
    THEN MapSet(analysisMap, id, analysis)
    ELSE IF RemoteAnalysisNewer(analysis, MapGet(analysisMap, id))
         THEN MapSet(analysisMap, id, analysis)
         ELSE analysisMap

RECURSIVE MergeRemoteAnalyses(_, _, _)
MergeRemoteAnalyses(analysisMap, remoteA, i) ==
    IF i > Len(remoteA) THEN analysisMap
    ELSE MergeRemoteAnalyses(MergeRemoteAnalysis(analysisMap, remoteA[i]), remoteA, i + 1)

\* Array.from(analysisMap.values()).sort(...)
SortAnalyses(arr) == SortByDateDesc(arr, "timestamp")

mergeBodyAnalyses(localA, remoteA) ==
    LET analysisMap == MergeRemoteAnalyses(SetLocalAnalyses(<<>>, localA, 1), remoteA, 1)
    IN  SortAnalyses(MapValues(analysisMap))

----------------------------------------------------------------------------
(* mergeData *)

\* the object literal built when both datasets are present
MergedDataset(localD, remoteD) ==
    [workouts        |-> mergeWorkouts(PropOrEmpty(localD, "workouts"),
                                       PropOrEmpty(remoteD, "workouts")),
     recentExercises |-> mergeRecentExercises(PropOrEmpty(localD, "recentExercises"),
                                              PropOrEmpty(remoteD, "recentExercises")),
     bodyAnalyses    |-> mergeBodyAnalyses(PropOrEmpty(localD, "bodyAnalyses"),
                                           PropOrEmpty(remoteD, "bodyAnalyses"))]

EmptyObject == [k \in {} |-> Undefined]

\* mergeData without its two early returns: a null side is merged as {}
mergeDataAlwaysMerges(localD, remoteD) ==
    MergedDataset(IF IsNull(localD) THEN EmptyObject ELSE localD,
                  IF IsNull(remoteD) THEN EmptyObject ELSE remoteD)

mergeData(localD, remoteD) ==
    IF IsNull(remoteD) THEN localD
    ELSE IF IsNull(localD) THEN remoteD
    ELSE MergedDataset(localD, remoteD)

\* mergeWorkouts sorting its local argument itself: localWorkouts.sort(...)
ArgumentsAfterSortInPlace(localArg, remoteArg) ==
    IF fn = "mergeWorkouts"
    THEN <<SortWorkouts(localArg), remoteArg>>
    ELSE <<localArg, remoteArg>>

\* What the caller's two argument values are after a reconciler call: the
\* methods only read them (forEach, spread, property reads) and sort the fresh
\* array that Array.from returns.
ArgumentsAfter(localArg, remoteArg) == <<localArg, remoteArg>>

----------------------------------------------------------------------------
(* The calls that are checked: the method and its arguments.                *)

\* longest argument array with free content
MaxLen == 2

\* size of the exercise catalogue the recent lists draw from
NumNames == 12

Ids == {"a", "b", "c"}

\* Versions of the workout with a given id. Records that storage.addWorkout
\* wrote carry date and updatedAt; records from other producers carry date only.
WorkoutVersions(id) ==
    { [id |-> id, date |-> "2024-01-01"],
      [id |-> id, date |-> "2024-01-01", updatedAt |-> "2024-01-05"],
      [id |-> id, date |-> "2024-01-05"],
      [id |-> id, date |-> "2024-01-01T00:00:00.000Z",
                  updatedAt |-> "2024-01-01T00:00:00.000Z"],
      [id |-> id, date |-> "2024-01-03T12:00:00.000Z",
                  updatedAt |-> "2024-01-03T12:00:00.000Z"] }

Workouts == UNION {WorkoutVersions(id) : id \in Ids}

AnalysisVersions(id) ==
    { [id |-> id, timestamp |-> ts] :
        ts \in {"2024-01-01", "2024-01-01T00:00:00.000Z", "2024-01-05"} }

Analyses == UNION {AnalysisVersions(id) : id \in Ids}

IdsOf(arr) == {arr[i].id : i \in 1..Len(arr)}

\* the id-keyed arrays over records of length n: each id at most once
RECURSIVE KeyedListsOfLen(_, _)
KeyedListsOfLen(records, n) ==
    IF n = 0 THEN {<<>>}
    ELSE UNION { {Append(l, r) : r \in {x \in records : x.id \notin IdsOf(l)}} :
                 l \in KeyedListsOfLen(records, n - 1) }

KeyedLists(records, maxLen) == UNION {KeyedListsOfLen(records, n) : n \in 0..maxLen}

WorkoutLists == KeyedLists(Workouts, MaxLen)

AnalysisLists == KeyedLists(Analyses, MaxLen)

\* the names from..to in catalogue order, or in reverse when from > to
Run(from, to) ==
    IF from <= to
    THEN [i \in 1..(to - from + 1) |-> from + i - 1]
    ELSE [i \in 1..(from - to + 1) |-> from - i + 1]

RECURSIVE SeqsOfLen(_, _)
SeqsOfLen(S, n) ==
    IF n = 0 THEN {<<>>}
    ELSE UNION { {Append(l, x) : x \in S} : l \in SeqsOfLen(S, n - 1) }

\* recent lists: every run of the catalogue, and every short list over three
\* names, repeated names included
RecentLists ==
    {Run(a, b) : a, b \in 1..NumNames}
    \cup UNION {SeqsOfLen(1..3, n) : n \in 0..MaxLen}

\* datasets for mergeData: one or two workouts of two ids in any order, a
\* recent list, one or two analyses; any of the three properties may be missing
DataWorkoutLists ==
    KeyedLists({[id |-> "a", date |-> "2024-01-01"],
                [id |-> "a", date |-> "2024-01-01", updatedAt |-> "2024-01-05"],
                [id |-> "b", date |-> "2024-01-05"]}, MaxLen)

DataRecentLists == {<<>>, <<2, 1>>, Run(1, NumNames), Run(NumNames, 3)}

DataAnalysisLists ==
    KeyedLists({[id |-> "a", timestamp |-> "2024-01-01"],
                [id |-> "a", timestamp |-> "2024-01-05"],
                [id |-> "b", timestamp |-> "2024-01-05"]}, 1)

Datasets ==
    { [workouts |-> w, recentExercises |-> r, bodyAnalyses |-> a] :
        w \in DataWorkoutLists, r \in DataRecentLists, a \in DataAnalysisLists }
    \cup { [workouts |-> w] : w \in DataWorkoutLists }
    \cup { [recentExercises |-> r, bodyAnalyses |-> a] :
             r \in DataRecentLists, a \in DataAnalysisLists }

EmptyStorage == [k \in {} |-> Undefined]

\* no file at the remote path
NoFile == [absent |-> TRUE]

\* the constructors of StorageManager and ExerciseManager; a field of the
\* storage manager that holds null (config, workouts, recentExercises,
\* bodyAnalyses) is left out of the record
NewStorageManager == [field \in {} |-> Null]

NewExerciseManager == [selectedExercises |-> <<>>, recentExercises |-> <<>>]

\* no sync call made, an empty disk, freshly constructed managers
Idle ==
    /\ calls = <<>>
    /\ remoteFile = NoFile
    /\ remoteFolder = FALSE
    /\ requests = <<>>
    /\ storage = NewStorageManager
    /\ exerciseManager = NewExerciseManager
    /\ history = [storage |-> <<>>, manager |-> <<>>]
    /\ workoutArg = Undefined
    /\ locationHash = <<>>

\* the constructor of YandexAPI, an untouched localStorage, no call made yet
Constructed ==
    /\ pc = "ready"
    /\ ret = Undefined
    /\ token = Null
    /\ userInfo = Null
    /\ isAuthenticated = FALSE
    /\ localStorage = EmptyStorage
    /\ Idle

\* a signed-in session whose localStorage holds the local dataset
SignedIn ==
    /\ pc = "ready"
    /\ ret = Undefined
    /\ token = "y0_token"
    /\ userInfo = Null
    /\ isAuthenticated = TRUE
    /\ localStorage = [workouts        |-> PropOrEmpty(localData, "workouts"),
                       recentExercises |-> PropOrEmpty(localData, "recentExercises"),
                       bodyAnalyses    |-> PropOrEmpty(localData, "bodyAnalyses")]
    /\ Idle

NoWorkoutArgs == localWorkouts = <<>> /\ remoteWorkouts = <<>>

NoRecentArgs == localRecent = <<>> /\ remoteRecent = <<>>

NoAnalysisArgs == localAnalyses = <<>> /\ remoteAnalyses = <<>>

NoDataArgs == localData = NoData /\ remoteData = NoData

InitWorkouts ==
    /\ fn = "mergeWorkouts"
    /\ localWorkouts \in WorkoutLists
    /\ remoteWorkouts \in WorkoutLists
    /\ NoRecentArgs /\ NoAnalysisArgs /\ NoDataArgs
    /\ Constructed

InitRecent ==
    /\ fn = "mergeRecentExercises"
    /\ localRecent \in RecentLists
    /\ remoteRecent \in RecentLists
    /\ NoWorkoutArgs /\ NoAnalysisArgs /\ NoDataArgs
    /\ Constructed

InitAnalyses ==
    /\ fn = "mergeBodyAnalyses"
    /\ localAnalyses \in AnalysisLists
    /\ remoteAnalyses \in AnalysisLists
    /\ NoWorkoutArgs /\ NoRecentArgs /\ NoDataArgs
    /\ Constructed

InitData ==
    /\ fn = "mergeData"
    /\ localData \in Datasets \cup {NoData}
    /\ remoteData \in Datasets \cup {NoData}
    /\ NoWorkoutArgs /\ NoRecentArgs /\ NoAnalysisArgs
    /\ (Constructed \/ SignedIn)

Init == InitWorkouts \/ InitRecent \/ InitAnalyses \/ InitData

----------------------------------------------------------------------------
(* The calls *)

CallMergeWorkouts ==
    /\ pc = "ready" /\ fn = "mergeWorkouts"
    /\ ret' = mergeWorkouts(localWorkouts, remoteWorkouts)
    /\ LET after == ArgumentsAfter(localWorkouts, remoteWorkouts)
       IN  localWorkouts' = after[1] /\ remoteWorkouts' = after[2]
    /\ pc' = "returned"
    /\ UNCHANGED <<fn, localRecent, remoteRecent, localAnalyses, remoteAnalyses,
                   localData, remoteData, apiState, localStorage, appState>>

CallMergeRecentExercises ==
    /\ pc = "ready" /\ fn = "mergeRecentExercises"
    /\ ret' = mergeRecentExercises(localRecent, remoteRecent)
    /\ LET after == ArgumentsAfter(localRecent, remoteRecent)
       IN  localRecent' = after[1] /\ remoteRecent' = after[2]
    /\ pc' = "returned"
    /\ UNCHANGED <<fn, localWorkouts, remoteWorkouts, localAnalyses, remoteAnalyses,
                   localData, remoteData, apiState, localStorage, appState>>

CallMergeBodyAnalyses ==
    /\ pc = "ready" /\ fn = "mergeBodyAnalyses"
    /\ ret' = mergeBodyAnalyses(localAnalyses, remoteAnalyses)
    /\ LET after == ArgumentsAfter(localAnalyses, remoteAnalyses)
       IN  localAnalyses' = after[1] /\ remoteAnalyses' = after[2]
    /\ pc' = "returned"
    /\ UNCHANGED <<fn, localWorkouts, remoteWorkouts, localRecent, remoteRecent,
                   localData, remoteData, apiState, localStorage, appState>>

CallMergeData ==
    /\ pc = "ready" /\ fn = "mergeData"
    /\ ret' = mergeData(localData, remoteData)
    /\ LET after == ArgumentsAfter(localData, remoteData)
       IN  localData' = after[1] /\ remoteData' = after[2]
    /\ pc' = "returned"
    /\ UNCHANGED <<fn, localWorkouts, remoteWorkouts, localRecent, remoteRecent,
                   localAnalyses, remoteAnalyses, apiState, localStorage, appState>>

Next ==
    \/ CallMergeWorkouts
    \/ CallMergeRecentExercises
    \/ CallMergeBodyAnalyses
    \/ CallMergeData

Spec == Init /\ [][Next]_vars

----------------------------------------------------------------------------
(* Properties of mergeWorkouts *)

Returned(method) == pc = "returned" /\ fn = method

DistinctIds(arr) == Cardinality(IdsOf(arr)) = Len(arr)

\* the instant a workout was last written: updatedAt, or date when the record
\* has no updatedAt
EffectiveTime(w) ==
    IF "updatedAt" \in DOMAIN w THEN DateParse(w.updatedAt).t ELSE DateParse(w.date).t

\* the pairs (local record, remote record) that share an id
WorkoutConflicts ==
    {p \in Range(localWorkouts) \X Range(remoteWorkouts) : p[1].id = p[2].id}

\* C1: for local and remote workout lists with pairwise distinct ids, the merge
\* holds exactly one record for every id of either list, no other id, and each
\* merged record is the local or the remote record (nothing lost, duplicated
\* or invented).
C1_MergeKeepsEveryId ==
    (Returned("mergeWorkouts") /\ DistinctIds(localWorkouts) /\ DistinctIds(remoteWorkouts))
    => /\ IdsOf(ret) = IdsOf(localWorkouts) \cup IdsOf(remoteWorkouts)
       /\ DistinctIds(ret)
       /\ Range(ret) \subseteq Range(localWorkouts) \cup Range(remoteWorkouts)

C1_Witness ==
    /\ Returned("mergeWorkouts")
    /\ IdsOf(localWorkouts) = {"a", "c"}
    /\ IdsOf(remoteWorkouts) = {"c", "b"}
    /\ Len(ret) = 3

\* C2: when a local and a remote workout share an id, the merge keeps the one
\* whose effective timestamp (updatedAt, or date when updatedAt is absent) is
\* strictly later, and the older version is not in the result.
C2_LaterWorkoutWins ==
    Returned("mergeWorkouts")
    => \A p \in WorkoutConflicts :
          /\ EffectiveTime(p[2]) > EffectiveTime(p[1])
               => (p[2] \in Range(ret) /\ p[1] \notin Range(ret))
          /\ EffectiveTime(p[1]) > EffectiveTime(p[2])
               => (p[1] \in Range(ret) /\ p[2] \notin Range(ret))

C2_Witness ==
    /\ Returned("mergeWorkouts")
    /\ \E p \in WorkoutConflicts :
          /\ "updatedAt" \in DOMAIN p[1]
          /\ "updatedAt" \notin DOMAIN p[2]
          /\ EffectiveTime(p[2]) > EffectiveTime(p[1])
          /\ p[2] \in Range(ret)
    /\ \E p \in WorkoutConflicts :
          /\ EffectiveTime(p[1]) > EffectiveTime(p[2])
          /\ p[1] \in Range(ret)

\* the instant a body analysis was taken
AnalysisTime(a) == DateParse(a.timestamp).t

AnalysisConflicts ==
    {p \in Range(localAnalyses) \X Range(remoteAnalyses) : p[1].id = p[2].id}

\* C3: when a local and a remote workout, or a local and a remote body
\* analysis, share an id and have equal timestamps, the merge keeps the local
\* copy and drops the remote one.
C3_TieKeepsLocal ==
    /\ Returned("mergeWorkouts")
         => \A p \in WorkoutConflicts :
               EffectiveTime(p[1]) = EffectiveTime(p[2])
                 => (p[1] \in Range(ret) /\ (p[2] # p[1] => p[2] \notin Range(ret)))
    /\ Returned("mergeBodyAnalyses")
         => \A p \in AnalysisConflicts :
               AnalysisTime(p[1]) = AnalysisTime(p[2])
                 => (p[1] \in Range(ret) /\ (p[2] # p[1] => p[2] \notin Range(ret)))

C3_Witness ==
    /\ Returned("mergeWorkouts")
    /\ \E p \in WorkoutConflicts :
          /\ EffectiveTime(p[1]) = EffectiveTime(p[2])
          /\ p[1] # p[2]
          /\ p[1] \in Range(ret)

\* adjacent records are newest first by the instant in the given property
NewestFirst(arr, field) ==
    \A i \in 1..(Len(arr) - 1) :
        DateParse(arr[i][field]).t >= DateParse(arr[i + 1][field]).t

\* C4: the list mergeWorkouts returns is ordered newest first by date and the
\* list mergeBodyAnalyses returns newest first by timestamp, whatever the
\* order of the inputs.
C4_ResultNewestFirst ==
    /\ Returned("mergeWorkouts") => NewestFirst(ret, "date")
    /\ Returned("mergeBodyAnalyses") => NewestFirst(ret, "timestamp")

C4_Witness ==
    /\ Returned("mergeWorkouts")
    /\ Len(localWorkouts) = 2
    /\ ~NewestFirst(localWorkouts, "date")
    /\ Len(ret) = 3
    /\ DateParse(ret[1].date).t > DateParse(ret[3].date).t

\* C5: mergeWorkouts(X, X) holds exactly the records of X, each once, for any
\* list X with pairwise distinct ids.
C5_MergeIdempotent ==
    (Returned("mergeWorkouts") /\ localWorkouts = remoteWorkouts /\ DistinctIds(localWorkouts))
    => /\ Range(ret) = Range(localWorkouts)
       /\ Len(ret) = Len(localWorkouts)

C5_Witness ==
    /\ Returned("mergeWorkouts")
    /\ localWorkouts = remoteWorkouts
    /\ Len(localWorkouts) = 2
    /\ ret # localWorkouts
    /\ Range(ret) = Range(localWorkouts)

----------------------------------------------------------------------------
(* Properties of mergeData, mergeRecentExercises and mergeBodyAnalyses *)

\* C6: mergeData returns its local argument unchanged when the remote dataset
\* is null and its remote argument unchanged when the local dataset is null:
\* no collection is re-sorted, truncated or dropped.
C6_NullSideReturnsOther ==
    Returned("mergeData")
    => /\ IsNull(remoteData) => ret = localData
       /\ IsNull(localData) => ret = remoteData

C6_Witness ==
    /\ Returned("mergeData")
    /\ IsNull(remoteData)
    /\ ~IsNull(localData)
    /\ DOMAIN localData = {"workouts", "recentExercises", "bodyAnalyses"}
    /\ Len(localData.recentExercises) > 10
    /\ ~NewestFirst(localData.workouts, "date")
    /\ ret = localData

NoDuplicates(arr) == Cardinality(Range(arr)) = Len(arr)

\* C7: mergeRecentExercises returns at most 10 entries and no name twice.
C7_RecentAtMostTenDistinct ==
    Returned("mergeRecentExercises") => (Len(ret) <= 10 /\ NoDuplicates(ret))

C7_Witness ==
    /\ Returned("mergeRecentExercises")
    /\ Cardinality(Range(localRecent) \cup Range(remoteRecent)) > 10
    /\ Range(localRecent) \cap Range(remoteRecent) # {}
    /\ Len(ret) = 10

\* the positions of arr that hold the first occurrence of their value
FirstOccurrences(arr) == {i \in 1..Len(arr) : \A j \in 1..(i - 1) : arr[j] # arr[i]}

\* C8: mergeRecentExercises(local, remote) is the first 10 distinct names of
\* local followed by remote, in order of first occurrence; every local name in
\* it precedes every name that occurs in remote only.
C8_RecentIsConcatDedupeCap ==
    Returned("mergeRecentExercises")
    => LET all   == localRecent \o remoteRecent
           first == FirstOccurrences(all)
           rank(i) == Cardinality({j \in first : j <= i})
       IN  /\ Len(ret) = (IF Cardinality(first) < 10 THEN Cardinality(first) ELSE 10)
           /\ \A i \in first : rank(i) <= 10 => ret[rank(i)] = all[i]
           /\ \A p, q \in 1..Len(ret) :
                 (ret[p] \in Range(localRecent) /\ ret[q] \notin Range(localRecent))
                   => p < q

C8_Witness ==
    /\ Returned("mergeRecentExercises")
    /\ \E q \in 1..Len(ret) : ret[q] \notin Range(localRecent)
    /\ Range(localRecent) \cap Range(remoteRecent) # {}
    /\ Range(remoteRecent) \ Range(ret) # {}
    /\ Len(ret) = 10

\* C9: mergeBodyAnalyses holds exactly one analysis per id of either input,
\* and for an id on both sides it is the remote analysis exactly when the
\* remote timestamp is strictly later than the local one.
C9_AnalysesMergedById ==
    Returned("mergeBodyAnalyses")
    => /\ IdsOf(ret) = IdsOf(localAnalyses) \cup IdsOf(remoteAnalyses)
       /\ DistinctIds(ret)
       /\ Range(ret) \subseteq Range(localAnalyses) \cup Range(remoteAnalyses)
       /\ \A p \in AnalysisConflicts :
             IF AnalysisTime(p[2]) > AnalysisTime(p[1])
             THEN p[2] \in Range(ret)
             ELSE p[1] \in Range(ret)

C9_Witness ==
    /\ Returned("mergeBodyAnalyses")
    /\ \E p \in AnalysisConflicts :
          AnalysisTime(p[2]) > AnalysisTime(p[1]) /\ p[2] \in Range(ret)
    /\ \E p \in AnalysisConflicts :
          AnalysisTime(p[2]) < AnalysisTime(p[1]) /\ p[1] \in Range(ret)
    /\ Len(ret) = 2

----------------------------------------------------------------------------
(* The merges on malformed records: records that lack id, date or timestamp *)

\* workouts as a remote blob may hold them: well-formed ones and ones with a
\* property missing
LooseWorkouts ==
    { [id |-> "a", date |-> "2024-01-01"],
      [id |-> "a", date |-> "2024-01-05"],
      [id |-> "b", date |-> "2024-01-01"],
      [id |-> "a"],
      [id |-> "a", updatedAt |-> "2024-01-05"],
      [date |-> "2024-01-05"],
      [date |-> "2024-01-01", updatedAt |-> "2024-01-03T12:00:00.000Z"] }

LooseAnalyses ==
    { [id |-> "a", timestamp |-> "2024-01-01"],
      [id |-> "a", timestamp |-> "2024-01-05"],
      [id |-> "b", timestamp |-> "2024-01-01"],
      [id |-> "a"],
      [timestamp |-> "2024-01-01"],
      [timestamp |-> "2024-01-05"] }

\* arrays of such records in which no two records have the same id property
\* (two records without an id count as the same)
LooseLists(records) ==
    { l \in UNION {SeqsOfLen(records, n) : n \in 0..MaxLen} :
        \A i, j \in 1..Len(l) : i # j => Prop(l[i], "id") # Prop(l[j], "id") }

InitLooseWorkouts ==
    /\ fn = "mergeWorkouts"
    /\ localWorkouts \in LooseLists(LooseWorkouts)
    /\ remoteWorkouts \in LooseLists(LooseWorkouts)
    /\ NoRecentArgs /\ NoAnalysisArgs /\ NoDataArgs
    /\ Constructed

InitLooseAnalyses ==
    /\ fn = "mergeBodyAnalyses"
    /\ localAnalyses \in LooseLists(LooseAnalyses)
    /\ remoteAnalyses \in LooseLists(LooseAnalyses)
    /\ NoWorkoutArgs /\ NoRecentArgs /\ NoDataArgs
    /\ Constructed

InitLoose == InitLooseWorkouts \/ InitLooseAnalyses

NextLoose == CallMergeWorkouts \/ CallMergeBodyAnalyses

SpecLoose == InitLoose /\ [][NextLoose]_vars

LacksWorkoutField(w) == "id" \notin DOMAIN w \/ "date" \notin DOMAIN w

LacksAnalysisField(a) == "id" \notin DOMAIN a \/ "timestamp" \notin DOMAIN a

\* C11: mergeWorkouts and mergeBodyAnalyses return on records that lack id,
\* date or timestamp, and a remote record with such a missing property is
\* treated as new: it is in the merged result.
C11_MalformedRemoteInserted ==
    /\ Returned("mergeWorkouts")
         => \A r \in Range(remoteWorkouts) : LacksWorkoutField(r) => r \in Range(ret)
    /\ Returned("mergeBodyAnalyses")
         => \A r \in Range(remoteAnalyses) : LacksAnalysisField(r) => r \in Range(ret)

----------------------------------------------------------------------------
(* The network methods: createFolder, uploadFile, downloadFile, syncData,   *)
(* loadData. A call runs from one await to the next in one step; the disk   *)
(* answers a request, and applies its effect, in the step that delivers the *)
(* response. A call records the fetches it issues; requests logs the       *)
(* bodies the disk stores, in the order it stores them.                     *)

\* most syncData / loadData invocations in one behaviour
MaxCalls == 2

\* JSON.stringify / JSON.parse on datasets and null: the text is the value,
\* tagged as text
JSONStringify(v) == [json |-> v]

JSONParse(text) == text.json

\* what fetch settles with: a rejection, or a response with a status and
\* (for the two URL requests) a body that has an href or not
FetchFailed == [failed |-> TRUE, status |-> 0, href |-> FALSE]

Response(status, href) == [failed |-> FALSE, status |-> status, href |-> href]

\* response.ok
Ok(resp) == resp.status >= 200 /\ resp.status <= 299

Throw(message) == [kind |-> "throw", error |-> message]

Return(value) == [kind |-> "return", value |-> value]

Continue == [kind |-> "continue"]

HttpError(prefix, resp) == prefix \o ToString(resp.status)

\* createFolder after its fetch, without the 409 branch
CreateFolderOutcomeNo409(resp) ==
    IF resp.failed THEN Throw("fetch rejected")
    ELSE IF ~Ok(resp) THEN Throw(HttpError("HTTP ", resp))
    ELSE Return([success |-> TRUE, exists |-> FALSE])

\* createFolder after its fetch
CreateFolderOutcome(resp) ==
    IF resp.failed THEN Throw("fetch rejected")
    ELSE IF resp.status = 409 THEN Return([success |-> TRUE, exists |-> TRUE])
    ELSE IF ~Ok(resp) THEN Throw(HttpError("HTTP ", resp))
    ELSE Return([success |-> TRUE, exists |-> FALSE])

\* uploadFile after the upload-URL fetch, without the check of uploadInfo.href
UploadUrlOutcomeAnyHref(resp) ==
    IF resp.failed THEN Throw("fetch rejected")
    ELSE IF ~Ok(resp) THEN Throw(HttpError("Failed to get upload URL: HTTP ", resp))
    ELSE Continue

\* uploadFile after the upload-URL fetch
UploadUrlOutcome(resp) ==
    IF resp.failed THEN Throw("fetch rejected")
    ELSE IF ~Ok(resp) THEN Throw(HttpError("Failed to get upload URL: HTTP ", resp))
    ELSE IF ~resp.href THEN Throw("No upload URL received")
    ELSE Continue

\* uploadFile after the PUT, without the check of uploadResponse.ok
PutOutcomeUnchecked(resp) ==
    IF resp.failed THEN Throw("fetch rejected")
    ELSE Return([success |-> TRUE])

\* uploadFile after the PUT of the data
PutOutcome(resp) ==
    IF resp.failed THEN Throw("fetch rejected")
    ELSE IF ~Ok(resp) THEN Throw(HttpError("Upload failed: HTTP ", resp))
    ELSE Return([success |-> TRUE])

\* downloadFile after the download-URL fetch, without the 404 branch
DownloadUrlOutcomeNo404(resp) ==
    IF resp.failed THEN Throw("fetch rejected")
    ELSE IF ~Ok(resp) THEN Throw(HttpError("HTTP ", resp))
    ELSE IF ~resp.href THEN Throw("No download URL received")
    ELSE Continue

\* downloadFile after the download-URL fetch
DownloadUrlOutcome(resp) ==
    IF resp.failed THEN Throw("fetch rejected")
    ELSE IF ~Ok(resp)
         THEN IF resp.status = 404 THEN Return(NoData)
              ELSE Throw(HttpError("HTTP ", resp))
    ELSE IF ~resp.href THEN Throw("No download URL received")
    ELSE Continue

\* downloadFile after the fetch of the file
DownloadOutcome(resp, file) ==
    IF resp.failed THEN Throw("fetch rejected")
    ELSE IF ~Ok(resp) THEN Throw(HttpError("File download failed: HTTP ", resp))
    ELSE Return(JSONParse(file))

\* loadData on what downloadFile returned: if (!data) return null
LoadDataResult(data) == IF IsNull(data) THEN NoData ELSE data

\* the file at the path after a PUT that does not replace an existing file
DiskAfterPutKeepsFirst(file, body) == IF file = NoFile THEN body ELSE file

\* the file at the path after a PUT to an upload URL asked with overwrite=true
DiskAfterPut(file, body) == body

\* localStorage after a loadData that caches what it downloaded
LocalStorageAfterCallCaching(store, call) ==
    IF call.method = "loadData" /\ call.pc = "resolved" /\ ~IsNull(call.value)
    THEN [store EXCEPT !.workouts = JSONStringify(PropOrEmpty(call.value, "workouts"))]
    ELSE store

\* localStorage after a step of a syncData or loadData call: neither method,
\* nor the three methods they await, reads or writes it
LocalStorageAfterCall(store, call) == store

NoValue == [pending |-> TRUE]

NewCall(method, data) ==
    [method |-> method, data |-> data, pc |-> "called", fetches |-> <<>>,
     responses |-> <<>>, folder |-> NoValue, value |-> NoValue, error |-> ""]

Rejected(call, message) == [call EXCEPT !.pc = "rejected", !.error = message]

Resolved(call, value) == [call EXCEPT !.pc = "resolved", !.value = value]

Request(c, kind, body) == [call |-> c, kind |-> kind, body |-> body]

NoBody == [none |-> TRUE]

\* the datasets syncData is called with
SyncPayloads ==
    { [workouts |-> <<[id |-> "a", date |-> "2024-01-01"]>>,
       recentExercises |-> <<1>>, bodyAnalyses |-> <<>>],
      [workouts |-> <<[id |-> "b", date |-> "2024-01-05"]>>,
       recentExercises |-> <<2>>, bodyAnalyses |-> <<>>] }

\* a call's step: the call after it, with the fetch it issued, if any; a
\* request of kind "stored" is the PUT the disk has just completed
Step(c, call, request) ==
    /\ calls' = [i \in DOMAIN calls \cup {c} |->
                    IF i # c THEN calls[i]
                    ELSE IF request # NoBody /\ request.kind # "stored"
                         THEN [call EXCEPT !.fetches = Append(@, request)]
                         ELSE call]
    /\ requests' = IF request # NoBody /\ request.kind = "stored"
                   THEN Append(requests, request) ELSE requests
    /\ localStorage' = LocalStorageAfterCall(localStorage, call)
    /\ UNCHANGED <<fn, pc, args, ret, apiState, managerState, workoutArg, locationHash>>

\* syncData(localData, remotePath) up to the await in createFolder
SyncDataStart(data) ==
    /\ Len(calls) < MaxCalls
    /\ LET c == Len(calls) + 1
           call == NewCall("syncData", data)
       IN  IF ~Truthy(token)
           THEN Step(c, Rejected(call, "No token provided"), NoBody)
           ELSE Step(c, [call EXCEPT !.pc = "createFolder"],
                     Request(c, "createFolder", NoBody))
    /\ UNCHANGED diskState

\* the answers the disk can give to the folder creation
CreateFolderResponses ==
    {FetchFailed, Response(500, FALSE),
     IF remoteFolder THEN Response(409, FALSE) ELSE Response(201, FALSE)}

\* createFolder resumes; syncData goes on into uploadFile up to its first await
CreateFolderResponse(c, resp) ==
    /\ c \in DOMAIN calls /\ calls[c].pc = "createFolder"
    /\ resp \in CreateFolderResponses
    /\ remoteFolder' = (remoteFolder \/ resp.status = 201)
    /\ remoteFile' = remoteFile
    /\ LET outcome == CreateFolderOutcome(resp)
           call == [calls[c] EXCEPT !.responses = Append(@, resp)]
       IN  IF outcome.kind = "throw"
           THEN Step(c, Rejected(call, outcome.error), NoBody)
           ELSE LET created == [call EXCEPT !.folder = outcome.value] IN
                IF ~Truthy(token)
                THEN Step(c, Rejected(created, "No token provided"), NoBody)
                ELSE Step(c, [created EXCEPT !.pc = "uploadUrl"],
                          Request(c, "uploadUrl", NoBody))

UploadUrlResponses ==
    {FetchFailed, Response(500, FALSE), Response(200, FALSE), Response(200, TRUE)}

\* uploadFile resumes after the upload-URL request and issues the PUT
UploadUrlResponse(c, resp) ==
    /\ c \in DOMAIN calls /\ calls[c].pc = "uploadUrl"
    /\ resp \in UploadUrlResponses
    /\ UNCHANGED diskState
    /\ LET outcome == UploadUrlOutcome(resp)
           call == [calls[c] EXCEPT !.responses = Append(@, resp)]
       IN  IF outcome.kind = "throw"
           THEN Step(c, Rejected(call, outcome.error), NoBody)
           ELSE Step(c, [call EXCEPT !.pc = "put"],
                     Request(c, "put", JSONStringify(call.data)))

PutResponses == {FetchFailed, Response(500, FALSE), Response(201, FALSE)}

\* uploadFile resumes after the PUT; syncData returns
PutResponse(c, resp) ==
    /\ c \in DOMAIN calls /\ calls[c].pc = "put"
    /\ resp \in PutResponses
    /\ remoteFolder' = remoteFolder
    /\ LET outcome == PutOutcome(resp)
           call == [calls[c] EXCEPT !.responses = Append(@, resp)]
           body == JSONStringify(call.data)
       IN  /\ remoteFile' = IF ~resp.failed /\ Ok(resp)
                            THEN DiskAfterPut(remoteFile, body) ELSE remoteFile
           /\ IF outcome.kind = "throw"
              THEN Step(c, Rejected(call, outcome.error),
                        IF ~resp.failed /\ Ok(resp)
                        THEN Request(c, "stored", body) ELSE NoBody)
              ELSE Step(c, Resolved(call, outcome.value),
                        IF ~resp.failed /\ Ok(resp)
                        THEN Request(c, "stored", body) ELSE NoBody)

\* loadData(remotePath) up to the first await in downloadFile
LoadDataStart ==
    /\ Len(calls) < MaxCalls
    /\ LET c == Len(calls) + 1
           call == NewCall("loadData", NoData)
       IN  IF ~Truthy(token)
           THEN Step(c, Rejected(call, "No token provided"), NoBody)
           ELSE Step(c, [call EXCEPT !.pc = "downloadUrl"],
                     Request(c, "downloadUrl", NoBody))
    /\ UNCHANGED diskState

DownloadUrlResponses ==
    {FetchFailed, Response(500, FALSE), Response(200, FALSE),
     IF remoteFile = NoFile THEN Response(404, FALSE) ELSE Response(200, TRUE)}

\* downloadFile resumes after the download-URL request
DownloadUrlResponse(c, resp) ==
    /\ c \in DOMAIN calls /\ calls[c].pc = "downloadUrl"
    /\ resp \in DownloadUrlResponses
    /\ UNCHANGED diskState
    /\ LET outcome == DownloadUrlOutcome(resp)
           call == [calls[c] EXCEPT !.responses = Append(@, resp)]
       IN  CASE outcome.kind = "throw" -> Step(c, Rejected(call, outcome.error), NoBody)
             [] outcome.kind = "return" ->
                  Step(c, Resolved(call, LoadDataResult(outcome.value)), NoBody)
             [] OTHER -> Step(c, [call EXCEPT !.pc = "download"],
                              Request(c, "download", NoBody))

DownloadResponses ==
    {FetchFailed, Response(500, FALSE), Response(404, FALSE), Response(200, FALSE)}

\* downloadFile resumes after the fetch of the file; loadData returns
DownloadResponse(c, resp) ==
    /\ c \in DOMAIN calls /\ calls[c].pc = "download"
    /\ resp \in DownloadResponses
    /\ remoteFile # NoFile
    /\ UNCHANGED diskState
    /\ LET outcome == DownloadOutcome(resp, remoteFile)
           call == [calls[c] EXCEPT !.responses = Append(@, resp)]
       IN  IF outcome.kind = "throw"
           THEN Step(c, Rejected(call, outcome.error), NoBody)
           ELSE Step(c, Resolved(call, LoadDataResult(outcome.value)), NoBody)

\* logout(), which may run while a call is suspended
Logout ==
    /\ token # Null
    /\ token' = Null
    /\ userInfo' = Null
    /\ isAuthenticated' = FALSE
    /\ UNCHANGED <<fn, pc, args, ret, localStorage, appState>>

\* what the application has persisted in localStorage, under STORAGE_KEYS
StoredLocally ==
    [workouts         |-> JSONStringify(<<[id |-> "a", date |-> "2024-01-01"]>>),
     recentExercises  |-> JSONStringify(<<1>>),
     bodyAnalyses     |-> JSONStringify(<<[id |-> "a", timestamp |-> "2024-01-01"]>>),
     myfitness_config |-> JSONStringify([autoSync |-> FALSE])]

InitSync ==
    /\ fn = "syncData" /\ pc = "ready" /\ ret = Undefined
    /\ NoWorkoutArgs /\ NoRecentArgs /\ NoAnalysisArgs /\ NoDataArgs
    /\ token \in {Null, "y0_token"}
    /\ userInfo = Null
    /\ isAuthenticated = (token # Null)
    /\ localStorage = StoredLocally
    /\ calls = <<>>
    /\ requests = <<>>
    /\ remoteFile \in {NoFile} \cup {JSONStringify(d) : d \in SyncPayloads}
    /\ remoteFolder \in {remoteFile # NoFile, TRUE}
    /\ storage = NewStorageManager
    /\ exerciseManager = NewExerciseManager
    /\ history = [storage |-> <<>>, manager |-> <<>>]
    /\ workoutArg = Undefined
    /\ locationHash = <<>>

NextSync ==
    \/ \E data \in SyncPayloads : SyncDataStart(data)
    \/ \E c \in 1..MaxCalls : \E resp \in CreateFolderResponses : CreateFolderResponse(c, resp)
    \/ \E c \in 1..MaxCalls : \E resp \in UploadUrlResponses : UploadUrlResponse(c, resp)
    \/ \E c \in 1..MaxCalls : \E resp \in PutResponses : PutResponse(c, resp)
    \/ LoadDataStart
    \/ \E c \in 1..MaxCalls : \E resp \in DownloadUrlResponses : DownloadUrlResponse(c, resp)
    \/ \E c \in 1..MaxCalls : \E resp \in DownloadResponses : DownloadResponse(c, resp)
    \/ Logout

SpecSync == InitSync /\ [][NextSync]_vars

----------------------------------------------------------------------------
(* Claims about the network methods                                         *)

\* the fetches call c has issued, in order
FetchesOf(c) == calls[c].fetches

\* the bodies the disk has stored, in order
StoredBodies == requests

\* what a download of the remote path would deliver
RemoteBlob == IF remoteFile = NoFile THEN NoData ELSE JSONParse(remoteFile)

\* C12: one sync cycle fetches the remote blob, merges it with the local
\* dataset through the reconciler and uploads the merge result: every PUT of
\* a syncData call comes after a download request of the same call, and its
\* body is the merge of the call's local dataset with the remote blob.
C12_SyncFetchesMergesUploads ==
    \A c \in DOMAIN calls :
        \A k \in DOMAIN FetchesOf(c) :
            FetchesOf(c)[k].kind = "put" =>
                /\ \E j \in 1..(k - 1) : FetchesOf(c)[j].kind = "downloadUrl"
                /\ (Len(calls) = 1 /\ calls[1].pc = "put") =>
                       FetchesOf(c)[k].body =
                           JSONStringify(mergeData(calls[1].data, RemoteBlob))

\* C13: a 409 to the folder creation makes createFolder return success, and
\* syncData goes on to the upload exactly as after a 201: the upload-URL
\* request is its next fetch (or the token is gone and uploadFile throws).
C13_ExistingFolderProceeds ==
    \A c \in DOMAIN calls :
        LET call == calls[c] IN
        (call.method = "syncData" /\ call.responses # <<>>
            /\ ~call.responses[1].failed /\ call.responses[1].status \in {201, 409}) =>
            /\ call.folder = [success |-> TRUE, exists |-> call.responses[1].status = 409]
            /\ \/ /\ Len(FetchesOf(c)) >= 2
                  /\ FetchesOf(c)[1].kind = "createFolder"
                  /\ FetchesOf(c)[2].kind = "uploadUrl"
               \/ /\ call.pc = "rejected" /\ call.error = "No token provided"
                  /\ Len(call.responses) = 1

C13_Witness ==
    \E c \in DOMAIN calls :
        /\ calls[c].method = "syncData" /\ calls[c].pc = "resolved"
        /\ calls[c].responses[1].status = 409
        /\ calls[c].value = [success |-> TRUE]
        /\ remoteFile = JSONStringify(calls[c].data)

\* C14: a 404 to the download request is not an error: loadData resolves
\* with null, and mergeData with that null returns the local dataset; every
\* other non-OK status of a loadData fetch rejects the call.
C14_MissingRemoteFileIsNull ==
    \A c \in DOMAIN calls :
        LET call == calls[c] IN
        (call.method = "loadData" /\ call.responses # <<>>) =>
            /\ (~call.responses[1].failed /\ call.responses[1].status = 404) =>
                   /\ call.pc = "resolved" /\ call.value = NoData
                   /\ \A d \in SyncPayloads : mergeData(d, call.value) = d
            /\ \A i \in DOMAIN call.responses :
                   (/\ ~call.responses[i].failed /\ ~Ok(call.responses[i])
                    /\ ~(i = 1 /\ call.responses[i].status = 404)) =>
                       call.pc = "rejected"

C14_Witness ==
    \E c \in DOMAIN calls :
        /\ calls[c].method = "loadData" /\ calls[c].pc = "resolved"
        /\ calls[c].responses = <<Response(404, FALSE)>>
        /\ calls[c].value = NoData
        /\ remoteFile = NoFile

\* the i-th fetch of the call failed: it was rejected, or answered with a
\* non-OK status other than the 409 to createFolder and the 404 to the
\* download request
FailedStep(call, i) ==
    LET resp == call.responses[i] IN
    \/ resp.failed
    \/ /\ ~Ok(resp)
       /\ ~(call.method = "syncData" /\ i = 1 /\ resp.status = 409)
       /\ ~(call.method = "loadData" /\ i = 1 /\ resp.status = 404)

\* C15: a failing network step of loadData or syncData rejects the call: the
\* call never resolves, and the failed step is its last fetch (no retry, no
\* further request).
C15_FailedStepRejectsOnce ==
    \A c \in DOMAIN calls :
        \A i \in DOMAIN calls[c].responses :
            FailedStep(calls[c], i) =>
                /\ calls[c].pc = "rejected"
                /\ calls[c].value = NoValue
                /\ i = Len(calls[c].responses)
                /\ Len(FetchesOf(c)) = i

C15_Witness ==
    \E c, d \in DOMAIN calls :
        /\ calls[c].method = "syncData" /\ calls[c].pc = "rejected"
        /\ Len(calls[c].responses) = 3 /\ calls[c].responses[3].status = 500
        /\ calls[d].method = "loadData" /\ calls[d].pc = "rejected"
        /\ Len(calls[d].responses) = 2 /\ calls[d].responses[2].failed

\* C16: no step of a loadData or syncData call, successful or failed, changes
\* what is persisted locally (workouts, recent exercises, body analyses,
\* configuration) or the storage manager's copies.
C16_CallsLeaveLocalDataAlone ==
    [][calls' # calls => localStorage' = localStorage /\ storage' = storage]_vars

C16_Witness ==
    \E c, d \in DOMAIN calls :
        /\ calls[c].method = "loadData" /\ calls[c].pc = "resolved"
        /\ ~IsNull(calls[c].value)
        /\ calls[c].value.workouts # JSONParse(localStorage.workouts)
        /\ calls[d].method = "syncData" /\ calls[d].pc \in {"resolved", "rejected"}
        /\ localStorage = StoredLocally

\* C17: a syncData call started while another is suspended is neither
\* rejected (it only rejects without a token) nor queued (its folder request
\* is issued at once), and the remote file holds the body of the PUT the
\* disk completed last.
C17_OverlappingSyncsLastPutWins ==
    /\ \A c \in DOMAIN calls :
           calls[c].method = "syncData" =>
               /\ (calls[c].pc = "rejected" /\ calls[c].responses = <<>>) =>
                      calls[c].error = "No token provided"
               /\ calls[c].pc # "called"
               /\ calls[c].pc # "rejected" \/ calls[c].responses # <<>> =>
                      /\ FetchesOf(c) # <<>>
                      /\ FetchesOf(c)[1].kind = "createFolder"
    /\ StoredBodies # <<>> => remoteFile = StoredBodies[Len(StoredBodies)].body

\* the second call ran while the first was suspended: the first call began
\* first and its PUT completed last
C17_Witness ==
    /\ Len(calls) = 2
    /\ calls[1].method = "syncData" /\ calls[2].method = "syncData"
    /\ calls[1].pc = "resolved" /\ calls[2].pc = "resolved"
    /\ calls[1].data # calls[2].data
    /\ [i \in 1..2 |-> StoredBodies[i].call] = <<2, 1>>
    /\ remoteFile = JSONStringify(calls[1].data)

----------------------------------------------------------------------------
(* StorageManager (js/modules/storage.js) over localStorage. A stored list  *)
(* holds strings, numbers, arrays and plain objects only, so JSON.parse of  *)
(* JSON.stringify gives back an equal value. setItem throws when the quota  *)
(* is exceeded: every call takes, for each setItem it makes, whether that   *)
(* write succeeds.                                                          *)

\* most records a collection is grown to by adds, and most names added, in
\* SpecStorage
MaxStored == 1

\* localStorage.setItem(key, text) and object assignment o[key] = value
SetItem(store, key, text) ==
    [k \in DOMAIN store \cup {key} |-> IF k = key THEN text ELSE store[k]]

\* localStorage.removeItem(key)
RemoveItem(store, key) == [k \in DOMAIN store \ {key} |-> store[k]]

\* { ...a, ...b }
Spread(a, b) ==
    [k \in DOMAIN a \cup DOMAIN b |-> IF k \in DOMAIN b THEN b[k] ELSE a[k]]

\* loadWorkouts / loadRecentExercises / loadBodyAnalyses:
\* saved ? JSON.parse(saved) : []
LoadedList(store, key) == IF key \in DOMAIN store THEN JSONParse(store[key]) ELSE <<>>

\* the ids in use in a store
UsedIds(store) ==
    {r.id : r \in {r \in Range(LoadedList(store, "workouts")) : "id" \in DOMAIN r}}
        \cup
    {r.id : r \in {r \in Range(LoadedList(store, "bodyAnalyses")) : "id" \in DOMAIN r}}
        \cup
    (IF "device_id" \in DOMAIN store THEN {store["device_id"]} ELSE {})

\* generateUUID(): a value no record in use carries
GenerateUUID(used) ==
    LET n == CHOOSE n \in 1..(Cardinality(used) + 1) :
                 ("uuid-" \o ToString(n)) \notin used
    IN  "uuid-" \o ToString(n)

\* new Date().toISOString() at the time of a call
Clock == {"2024-01-03T12:00:00.000Z"}

\* what the user hands to addWorkout, addBodyAnalysis and saveConfig
WorkoutInputs == {[cycle |-> 1, id |-> "draft"]}

AnalysisInputs == {[weight |-> 80]}

ConfigInputs == {[theme |-> "light"]}

\* a storage call returns, or throws
StorageReturns(method, value) ==
    /\ fn' = method /\ pc' = "returned" /\ ret' = value
    /\ UNCHANGED <<args, apiState, netState, exerciseManager, workoutArg, locationHash>>

StorageThrows(method) ==
    /\ fn' = method /\ pc' = "threw" /\ ret' = Undefined
    /\ UNCHANGED <<args, apiState, netState, exerciseManager, workoutArg, locationHash>>

\* addWorkout(workout); getDeviceId() stores a new device id outside any try
AddWorkout(workout, now, deviceOk, saveOk) ==
    LET workouts  == LoadedList(localStorage, "workouts")
        id        == GenerateUUID(UsedIds(localStorage))
        hasDevice == "device_id" \in DOMAIN localStorage
        deviceId  == IF hasDevice THEN localStorage["device_id"]
                     ELSE GenerateUUID(UsedIds(localStorage) \cup {id})
        withId    == IF hasDevice THEN localStorage
                     ELSE SetItem(localStorage, "device_id", deviceId)
        updated   == Append(workouts,
                            Spread(workout, [id |-> id, date |-> now,
                                             updatedAt |-> now, deviceId |-> deviceId]))
    IN  /\ Len(workouts) < MaxStored
        /\ history' = history
        /\ IF ~hasDevice /\ ~deviceOk
           THEN /\ storage' = SetItem(storage, "workouts", workouts)
                /\ localStorage' = localStorage
                /\ StorageThrows("addWorkout")
           ELSE /\ storage' = SetItem(storage, "workouts", updated)
                /\ localStorage' = IF saveOk
                                   THEN SetItem(withId, "workouts", JSONStringify(updated))
                                   ELSE withId
                /\ StorageReturns("addWorkout", saveOk)

\* addBodyAnalysis(analysis)
AddBodyAnalysis(analysis, now, saveOk) ==
    LET analyses == LoadedList(localStorage, "bodyAnalyses")
        updated  == Append(analyses,
                           Spread(analysis, [id |-> GenerateUUID(UsedIds(localStorage)),
                                             timestamp |-> now]))
    IN  /\ Len(analyses) < MaxStored
        /\ history' = history
        /\ storage' = SetItem(storage, "bodyAnalyses", updated)
        /\ localStorage' = IF saveOk
                           THEN SetItem(localStorage, "bodyAnalyses", JSONStringify(updated))
                           ELSE localStorage
        /\ StorageReturns("addBodyAnalysis", saveOk)

\* the recent list after an add that does not cut the list
RecentAfterAddUncapped(recent, exerciseName) ==
    <<exerciseName>> \o SelectSeq(recent, LAMBDA e : e # exerciseName)

\* [exerciseName, ...recent.filter(e => e !== exerciseName)].slice(0, 10)
RecentAfterAdd(recent, exerciseName) ==
    SliceFirst(<<exerciseName>> \o SelectSeq(recent, LAMBDA e : e # exerciseName), 10)

\* storage.addRecentExercise(exerciseName); history keeps the names saved
AddRecentExercise(exerciseName, saveOk) ==
    LET recent  == LoadedList(localStorage, "recentExercises")
        updated == RecentAfterAdd(recent, exerciseName)
    IN  /\ storage' = SetItem(storage, "recentExercises", updated)
        /\ localStorage' = IF saveOk
                           THEN SetItem(localStorage, "recentExercises", JSONStringify(updated))
                           ELSE localStorage
        /\ history' = IF saveOk THEN [history EXCEPT !.storage = Append(@, exerciseName)]
                      ELSE history
        /\ StorageReturns("addRecentExercise", saveOk)

\* exerciseManager.addToRecent(exerciseName)
AddToRecent(exerciseName) ==
    /\ exerciseManager' =
           [exerciseManager EXCEPT
               !.recentExercises = RecentAfterAdd(@, exerciseName)]
    /\ history' = [history EXCEPT !.manager = Append(@, exerciseName)]
    /\ fn' = "addToRecent" /\ pc' = "returned" /\ ret' = Undefined
    /\ UNCHANGED <<args, apiState, netState, storage, localStorage, workoutArg, locationHash>>

\* saveConfig(config)
SaveConfig(config, saveOk) ==
    LET current == IF "config" \in DOMAIN storage THEN storage.config
                   ELSE [k \in {} |-> Null]
        merged  == Spread(current, config)
    IN  /\ storage' = SetItem(storage, "config", merged)
        /\ localStorage' = IF saveOk
                           THEN SetItem(localStorage, "myfitness_config", JSONStringify(merged))
                           ELSE localStorage
        /\ history' = history
        /\ StorageReturns("saveConfig", saveOk)

\* clearAll()
ClearAll ==
    /\ localStorage' = RemoveItem(RemoveItem(RemoveItem(localStorage, "workouts"),
                                             "recentExercises"), "bodyAnalyses")
    /\ storage' = SetItem(SetItem(SetItem(storage, "workouts", <<>>),
                                  "recentExercises", <<>>), "bodyAnalyses", <<>>)
    /\ history' = history
    /\ StorageReturns("clearAll", TRUE)

\* exportData()
ExportData(now) ==
    LET data == [workouts        |-> LoadedList(localStorage, "workouts"),
                 recentExercises |-> LoadedList(localStorage, "recentExercises"),
                 bodyAnalyses    |-> LoadedList(localStorage, "bodyAnalyses"),
                 exportDate      |-> now]
    IN  /\ storage' = SetItem(SetItem(SetItem(storage, "workouts", data.workouts),
                                      "recentExercises", data.recentExercises),
                              "bodyAnalyses", data.bodyAnalyses)
        /\ UNCHANGED <<localStorage, history>>
        /\ StorageReturns("exportData", JSONStringify(data))

\* a text JSON.parse throws on
InvalidJSON == [invalid |-> TRUE]

\* texts handed to importData, besides what exportData returned
ImportTexts ==
    {InvalidJSON,
     JSONStringify(NoData),
     JSONStringify([workouts |-> <<>>]),
     JSONStringify([workouts |-> <<[id |-> "a", date |-> "2024-01-01"]>>,
                    recentExercises |-> <<2, 1>>,
                    bodyAnalyses |-> <<[id |-> "b", timestamp |-> "2024-01-05"]>>])}

\* an import that adds the imported list to the stored one
ImportedFieldAppending(state, data, key, saveOk) ==
    IF key \notin DOMAIN data THEN state
    ELSE [manager |-> SetItem(state.manager, key,
                              LoadedList(state.store, key) \o data[key]),
          store   |-> IF saveOk
                      THEN SetItem(state.store, key,
                                   JSONStringify(LoadedList(state.store, key) \o data[key]))
                      ELSE state.store]

\* saveWorkouts / saveRecentExercises / saveBodyAnalyses when the imported
\* data has the property, as importData calls them: the manager's fields and
\* localStorage after it
ImportedField(state, data, key, saveOk) ==
    IF key \notin DOMAIN data THEN state
    ELSE [manager |-> SetItem(state.manager, key, data[key]),
          store   |-> IF saveOk
                      THEN SetItem(state.store, key, JSONStringify(data[key]))
                      ELSE state.store]

\* importData(jsonData)
ImportData(jsonData, workoutsOk, recentOk, analysesOk) ==
    /\ history' = history
    /\ IF "json" \notin DOMAIN jsonData \/ IsNull(JSONParse(jsonData))
       THEN /\ UNCHANGED <<storage, localStorage>>
            /\ StorageReturns("importData", FALSE)
       ELSE LET data   == JSONParse(jsonData)
                before == [manager |-> storage, store |-> localStorage]
                after  == ImportedField(
                              ImportedField(
                                  ImportedField(before, data, "workouts", workoutsOk),
                                  data, "recentExercises", recentOk),
                              data, "bodyAnalyses", analysesOk)
            IN  /\ storage' = after.manager
                /\ localStorage' = after.store
                /\ StorageReturns("importData", TRUE)

\* which of the three writes of an importData call succeed
ImportOutcomes ==
    {<<TRUE, TRUE, TRUE>>, <<FALSE, TRUE, TRUE>>, <<TRUE, FALSE, FALSE>>,
     <<FALSE, FALSE, FALSE>>}

\* the texts importData can be given in the current state
ImportChoices ==
    ImportTexts \cup (IF fn = "exportData" /\ pc = "returned" THEN {ret} ELSE {})

InitStorage ==
    /\ fn = "StorageManager"
    /\ NoWorkoutArgs /\ NoRecentArgs /\ NoAnalysisArgs /\ NoDataArgs
    /\ Constructed

NextStorage ==
    \/ \E workout \in WorkoutInputs, now \in Clock, deviceOk, saveOk \in BOOLEAN :
           AddWorkout(workout, now, deviceOk, saveOk)
    \/ \E analysis \in AnalysisInputs, now \in Clock, saveOk \in BOOLEAN :
           AddBodyAnalysis(analysis, now, saveOk)
    \/ \E exerciseName \in {1}, saveOk \in BOOLEAN :
           /\ Len(history.storage) < MaxStored
           /\ AddRecentExercise(exerciseName, saveOk)
    \/ \E config \in ConfigInputs, saveOk \in BOOLEAN : SaveConfig(config, saveOk)
    \/ ClearAll
    \/ \E now \in Clock : ExportData(now)
    \/ \E jsonData \in ImportChoices, ok \in ImportOutcomes :
           ImportData(jsonData, ok[1], ok[2], ok[3])

SpecStorage == InitStorage /\ [][NextStorage]_vars

----------------------------------------------------------------------------
(* Claims about the storage manager                                         *)

\* the workouts and body analyses held in local storage
StoredRecords ==
    Range(LoadedList(localStorage, "workouts"))
        \cup Range(LoadedList(localStorage, "bodyAnalyses"))

\* C18: stored records are deleted only by the bulk clear: a step of any
\* storage call other than clearAll (addWorkout, addBodyAnalysis,
\* addRecentExercise, saveConfig, exportData, importData) keeps every workout
\* and body analysis that is in local storage.
C18_OnlyClearAllRemoves ==
    [][fn' # "clearAll" => StoredRecords \subseteq StoredRecords']_vars


----------------------------------------------------------------------------
(* The recent lists under adds only: storage.addRecentExercise on the       *)
(* persisted list, exerciseManager.addToRecent on the manager's list, each  *)
(* from an empty list. Names enter in increasing order; a name used before  *)
(* is added again at most MaxRepeats times in a behaviour.                  *)

MaxRepeats == 2

\* the names the next add may carry: the next unused name, or a name used
\* before (the newest, the second newest or the oldest of the list, or the
\* first name of all, which the list may have dropped)
NamesToAdd(added, list) ==
    {n \in 1..NumNames : n = Cardinality(Range(added)) + 1}
        \cup
    (IF Len(added) - Cardinality(Range(added)) < MaxRepeats /\ list # <<>>
     THEN {list[1], list[IF Len(list) > 1 THEN 2 ELSE 1], list[Len(list)], 1}
     ELSE {})

InitRecentAdds ==
    /\ fn \in {"addRecentExercise", "addToRecent"}
    /\ NoWorkoutArgs /\ NoRecentArgs /\ NoAnalysisArgs /\ NoDataArgs
    /\ Constructed

NextRecent ==
    \/ /\ fn = "addRecentExercise"
       /\ \E exerciseName \in NamesToAdd(history.storage,
                                         LoadedList(localStorage, "recentExercises")),
             saveOk \in BOOLEAN :
              AddRecentExercise(exerciseName, saveOk)
    \/ /\ fn = "addToRecent"
       /\ \E exerciseName \in NamesToAdd(history.manager, exerciseManager.recentExercises) :
              AddToRecent(exerciseName)

SpecRecent == InitRecentAdds /\ [][NextRecent]_vars

\* the position of the last add of a name, 0 when it was never added
LastUse(added, name) ==
    IF name \notin Range(added) THEN 0
    ELSE CHOOSE i \in DOMAIN added :
             added[i] = name /\ \A j \in (i + 1)..Len(added) : added[j] # name

\* list is what the adds leave: at most 10 names, none twice, the name added
\* last first, the others by decreasing last use, and only names used
\* earlier than all ten are missing
IsRecentOrder(list, added) ==
    /\ Len(list) <= 10
    /\ NoDuplicates(list)
    /\ Range(list) \subseteq Range(added)
    /\ added # <<>> => list # <<>> /\ list[1] = added[Len(added)]
    /\ \A i, j \in DOMAIN list :
           i < j => LastUse(added, list[i]) > LastUse(added, list[j])
    /\ \A n \in Range(added) \ Range(list) :
           Len(list) = 10 /\ LastUse(added, n) < LastUse(added, list[10])

\* C19: from an empty recent list, after any sequence of
\* storage.addRecentExercise calls the persisted list, and after any sequence
\* of exerciseManager.addToRecent calls the manager's list, has at most 10
\* names, no name twice, the name added last first and the others in order of
\* last use; after a call that could not save, the storage manager's copy is
\* that list for the saved adds followed by the add that failed.
C19_RecentListsByLastUse ==
    /\ fn = "addRecentExercise" =>
           /\ IsRecentOrder(LoadedList(localStorage, "recentExercises"), history.storage)
           /\ pc = "returned" =>
                  IF ret
                  THEN storage.recentExercises = LoadedList(localStorage, "recentExercises")
                  ELSE IsRecentOrder(storage.recentExercises,
                                     Append(history.storage, storage.recentExercises[1]))
    /\ fn = "addToRecent" =>
           IsRecentOrder(exerciseManager.recentExercises, history.manager)

\* twelve names saved, the first of them saved again after the list dropped it
C19_Witness ==
    /\ fn = "addRecentExercise" /\ pc = "returned" /\ ret
    /\ Len(LoadedList(localStorage, "recentExercises")) = 10
    /\ Cardinality(Range(history.storage)) = 12
    /\ LoadedList(localStorage, "recentExercises")[1] = 1
    /\ Len(history.storage) = 13


----------------------------------------------------------------------------
(* validateWorkout, validateExercise and validateSet (js/utils/validator.js).*)
(* The validator tests the types of what it is given, so here a property     *)
(* value carries its type: [string |-> s], [number |-> n], [nan |-> TRUE],   *)
(* [array |-> items], [null |-> TRUE], [undefined |-> TRUE]; any other record*)
(* is a plain object, and a property an object lacks reads as undefined.     *)

\* longest exercise list handed to validateWorkout
MaxExercises == 9

JsUndefined == [undefined |-> TRUE]

JsString(s) == [string |-> s]

JsNumber(n) == [number |-> n]

JsNaN == [nan |-> TRUE]

JsArray(items) == [array |-> items]

\* object.property
Get(object, property) ==
    IF property \in DOMAIN object THEN object[property] ELSE JsUndefined

\* typeof value
TypeOf(value) ==
    IF "string" \in DOMAIN value THEN "string"
    ELSE IF "number" \in DOMAIN value \/ "nan" \in DOMAIN value THEN "number"
    ELSE IF "undefined" \in DOMAIN value THEN "undefined"
    ELSE "object"

\* !!value
ToBoolean(value) ==
    IF "undefined" \in DOMAIN value \/ "null" \in DOMAIN value \/ "nan" \in DOMAIN value
    THEN FALSE
    ELSE IF "string" \in DOMAIN value THEN value.string # ""
    ELSE IF "number" \in DOMAIN value THEN value.number # 0
    ELSE TRUE

\* Array.isArray(value)
IsArray(value) == "array" \in DOMAIN value

\* value.length: the length of an array; the non-empty strings used here
\* have three characters; undefined (here -1, equal to no length and above
\* none) for the rest
Length(value) ==
    IF IsArray(value) THEN Len(value.array)
    ELSE IF "string" \in DOMAIN value /\ value.string # "" THEN 3
    ELSE -1

\* value < n and value > n: a number compares by its value, null and "" as
\* 0; undefined, NaN and the other strings used here convert to NaN, which
\* is neither less nor greater
NumberLT(value, n) ==
    \/ "number" \in DOMAIN value /\ value.number < n
    \/ ("null" \in DOMAIN value \/ value = JsString("")) /\ 0 < n

NumberGT(value, n) ==
    \/ "number" \in DOMAIN value /\ value.number > n
    \/ ("null" \in DOMAIN value \/ value = JsString("")) /\ 0 > n

\* errors.join(', ')
RECURSIVE JoinErrors(_)
JoinErrors(errors) ==
    IF errors = <<>> THEN ""
    ELSE IF Len(errors) = 1 THEN errors[1]
    ELSE errors[1] \o ", " \o JoinErrors(Tail(errors))

\* validateSet(set): its errors
validateSet(set) ==
    IF ~ToBoolean(set) THEN <<"set is empty">>
    ELSE (IF TypeOf(Get(set, "weight")) # "number" \/ NumberLT(Get(set, "weight"), 0)
          THEN <<"weight must be a positive number">> ELSE <<>>)
         \o
         (IF TypeOf(Get(set, "reps")) # "number" \/ NumberLT(Get(set, "reps"), 0)
          THEN <<"reps must be a positive number">> ELSE <<>>)
         \o
         (IF NumberGT(Get(set, "weight"), 1000)
          THEN <<"weight cannot exceed 1000 kg">> ELSE <<>>)
         \o
         (IF NumberGT(Get(set, "reps"), 100)
          THEN <<"reps cannot exceed 100">> ELSE <<>>)

\* the messages a forEach over items pushes: one for each item with errors
RECURSIVE ItemErrors(_, _, _)
ItemErrors(label, errorLists, index) ==
    IF index > Len(errorLists) THEN <<>>
    ELSE (IF errorLists[index] # <<>>
          THEN <<label \o ToString(index) \o ": " \o JoinErrors(errorLists[index])>>
          ELSE <<>>)
         \o ItemErrors(label, errorLists, index + 1)

\* validateExercise without the test of sets.length === 0
validateExerciseAnySets(exercise) ==
    IF ~ToBoolean(exercise)
    THEN [threw |-> FALSE, errors |-> <<"exercise is empty">>]
    ELSE LET name == Get(exercise, "exercise")
             sets == Get(exercise, "sets")
             head == (IF ~ToBoolean(name) \/ TypeOf(name) # "string"
                      THEN <<"exercise name is required">> ELSE <<>>)
                     \o
                     (IF ~ToBoolean(sets) \/ ~IsArray(sets)
                      THEN <<"exercise must have an array of sets">> ELSE <<>>)
         IN  IF ~ToBoolean(sets) THEN [threw |-> FALSE, errors |-> head]
             ELSE IF ~IsArray(sets) THEN [threw |-> TRUE, errors |-> head]
             ELSE [threw  |-> FALSE,
                   errors |-> head \o
                       ItemErrors("Set ",
                                  [i \in DOMAIN sets.array |-> validateSet(sets.array[i])],
                                  1)]

\* validateExercise(exercise): its errors, or the TypeError of forEach on a
\* sets value that is truthy and not an array
validateExercise(exercise) ==
    IF ~ToBoolean(exercise)
    THEN [threw |-> FALSE, errors |-> <<"exercise is empty">>]
    ELSE LET name == Get(exercise, "exercise")
             sets == Get(exercise, "sets")
             head == (IF ~ToBoolean(name) \/ TypeOf(name) # "string"
                      THEN <<"exercise name is required">> ELSE <<>>)
                     \o
                     (IF ~ToBoolean(sets) \/ ~IsArray(sets)
                      THEN <<"exercise must have an array of sets">> ELSE <<>>)
                     \o
                     (IF ToBoolean(sets) /\ Length(sets) = 0
                      THEN <<"exercise must have at least one set">> ELSE <<>>)
         IN  IF ~ToBoolean(sets) THEN [threw |-> FALSE, errors |-> head]
             ELSE IF ~IsArray(sets) THEN [threw |-> TRUE, errors |-> head]
             ELSE [threw  |-> FALSE,
                   errors |-> head \o
                       ItemErrors("Set ",
                                  [i \in DOMAIN sets.array |-> validateSet(sets.array[i])],
                                  1)]

\* validateWorkout(workout): { isValid, errors }, or the TypeError of forEach
\* on an exercises value that is truthy and not an array
validateWorkout(workout) ==
    IF ~ToBoolean(workout)
    THEN [threw |-> FALSE, isValid |-> FALSE, errors |-> <<"workout is empty">>]
    ELSE LET exercises == Get(workout, "exercises")
             head == (IF ~ToBoolean(exercises) \/ ~IsArray(exercises)
                      THEN <<"workout must have an array of exercises">> ELSE <<>>)
                     \o
                     (IF ToBoolean(exercises) /\ Length(exercises) = 0
                      THEN <<"workout must have at least one exercise">> ELSE <<>>)
                     \o
                     (IF ToBoolean(exercises) /\ Length(exercises) > 8
                      THEN <<"at most 8 exercises in a workout">> ELSE <<>>)
         IN  IF ~ToBoolean(exercises)
             THEN [threw |-> FALSE, isValid |-> head = <<>>, errors |-> head]
             ELSE IF ~IsArray(exercises)
             THEN [threw |-> TRUE, isValid |-> FALSE, errors |-> head]
             ELSE LET results == [i \in DOMAIN exercises.array |->
                                      validateExercise(exercises.array[i])]
                      errors  == head \o ItemErrors("Exercise ",
                                         [i \in DOMAIN results |-> results[i].errors], 1)
                  IN  [threw   |-> \E i \in DOMAIN results : results[i].threw,
                       isValid |-> errors = <<>>,
                       errors  |-> errors]


\* the sets, exercises and workouts handed to the validator
SetInputs ==
    {NoData,
     [weight |-> JsNumber(50), reps |-> JsNumber(10)],
     [weight |-> JsNumber(0), reps |-> JsNumber(0)],
     [weight |-> JsNumber(-1), reps |-> JsNumber(10)],
     [weight |-> JsNumber(1001), reps |-> JsNumber(10)],
     [weight |-> JsNumber(50), reps |-> JsNumber(101)],
     [weight |-> JsNumber(999999), reps |-> JsNumber(999999)],
     [weight |-> JsString("abc"), reps |-> JsNumber(10)],
     [weight |-> JsNaN, reps |-> JsNumber(10)],
     [reps |-> JsNumber(10)]}

GoodSet == [weight |-> JsNumber(50), reps |-> JsNumber(10)]

SetsInputs ==
    {JsArray(<<>>), NoData, JsString("abc")}
        \cup {JsArray(<<set>>) : set \in SetInputs}
        \cup {JsArray(<<GoodSet, set>>) : set \in {NoData, GoodSet}}

NameInputs == {JsString("bench"), JsString(""), JsNumber(7), NoData}

ExerciseInputs ==
    {NoData}
        \cup {[exercise |-> name, sets |-> sets] : name \in NameInputs, sets \in SetsInputs}
        \cup {[exercise |-> name] : name \in NameInputs}
        \cup {[sets |-> JsArray(<<GoodSet>>)]}

GoodExercise == [exercise |-> JsString("bench"), sets |-> JsArray(<<GoodSet>>)]

\* lists of up to two exercises of any kind, and longer lists of sound
\* exercises and exercises whose sets array is empty
ExerciseLists ==
    UNION {SeqsOfLen(ExerciseInputs, n) : n \in 0..2}
        \cup UNION {SeqsOfLen({GoodExercise,
                               [exercise |-> JsString("squat"), sets |-> JsArray(<<>>)]}, n) :
                        n \in 3..MaxExercises}

WorkoutArgs ==
    {NoData, [cycle |-> 1], [exercises |-> NoData], [exercises |-> JsString("abc")]}
        \cup {[exercises |-> JsArray(list)] : list \in ExerciseLists}

InitValidator ==
    /\ fn = "validateWorkout"
    /\ pc = "ready" /\ ret = Undefined
    /\ NoWorkoutArgs /\ NoRecentArgs /\ NoAnalysisArgs /\ NoDataArgs
    /\ token = Null /\ userInfo = Null /\ isAuthenticated = FALSE
    /\ localStorage = EmptyStorage
    /\ calls = <<>> /\ remoteFile = NoFile /\ remoteFolder = FALSE /\ requests = <<>>
    /\ storage = NewStorageManager
    /\ exerciseManager = NewExerciseManager
    /\ history = [storage |-> <<>>, manager |-> <<>>]
    /\ workoutArg \in WorkoutArgs
    /\ locationHash = <<>>

\* validator.validateWorkout(workout)
CallValidateWorkout ==
    /\ fn = "validateWorkout" /\ pc = "ready"
    /\ LET result == validateWorkout(workoutArg)
       IN  IF result.threw
           THEN pc' = "threw" /\ ret' = Undefined
           ELSE /\ pc' = "returned"
                /\ ret' = [isValid |-> result.isValid, errors |-> result.errors]
    /\ UNCHANGED <<fn, args, apiState, localStorage, netState, managerState, workoutArg, locationHash>>

NextValidator == CallValidateWorkout

SpecValidator == InitValidator /\ [][NextValidator]_vars

\* an exercise with a non-empty string name and at least one set
NamedWithSets(exercise) ==
    /\ "null" \notin DOMAIN exercise
    /\ "exercise" \in DOMAIN exercise
    /\ "string" \in DOMAIN exercise.exercise /\ exercise.exercise.string # ""
    /\ "sets" \in DOMAIN exercise
    /\ "array" \in DOMAIN exercise.sets /\ Len(exercise.sets.array) >= 1

\* an exercise with no sets: no sets property, or an empty sets array
HasNoSets(exercise) ==
    /\ "null" \notin DOMAIN exercise
    /\ \/ "sets" \notin DOMAIN exercise
       \/ "null" \in DOMAIN exercise.sets
       \/ "array" \in DOMAIN exercise.sets /\ exercise.sets.array = <<>>

\* the workout has an exercise list
HasExerciseList(workout) ==
    "exercises" \in DOMAIN workout /\ "array" \in DOMAIN workout.exercises

----------------------------------------------------------------------------
(* The selection of the ExerciseManager: selectExercise, deselectExercise,   *)
(* clearSelected. history logs the direct addRecentExercise / addToRecent    *)
(* calls of SpecRecent only.                                                 *)

\* names the user can pick from in SpecSelection
MaxSelectable == 9

\* this.selectedExercises.size >= 8, with > for >=
SelectionFullAbove(selected) == Len(selected) > 8

\* this.selectedExercises.size >= 8
SelectionFull(selected) == Len(selected) >= 8

\* Set.prototype.delete
SetDelete(set, value) == SelectSeq(set, LAMBDA e : e # value)

ManagerReturns(method, value) ==
    /\ fn' = method /\ pc' = "returned" /\ ret' = value
    /\ UNCHANGED <<args, apiState, netState, storage, history, localStorage, workoutArg, locationHash>>

\* selectExercise(exerciseName)
SelectExercise(exerciseName) ==
    IF SelectionFull(exerciseManager.selectedExercises)
    THEN /\ exerciseManager' = exerciseManager
         /\ ManagerReturns("selectExercise", FALSE)
    ELSE /\ exerciseManager' =
                [selectedExercises |-> SetAdd(exerciseManager.selectedExercises, exerciseName),
                 recentExercises   |-> RecentAfterAdd(exerciseManager.recentExercises,
                                                      exerciseName)]
         /\ ManagerReturns("selectExercise", TRUE)

\* deselectExercise(exerciseName)
DeselectExercise(exerciseName) ==
    /\ exerciseManager' =
           [exerciseManager EXCEPT !.selectedExercises = SetDelete(@, exerciseName)]
    /\ ManagerReturns("deselectExercise", Undefined)

\* clearSelected()
ClearSelected ==
    /\ exerciseManager' = [exerciseManager EXCEPT !.selectedExercises = <<>>]
    /\ ManagerReturns("clearSelected", Undefined)

\* the names a selectExercise call may carry: the lowest name not selected,
\* and the name selected first
NamesToSelect(selected) ==
    {n \in 1..MaxSelectable : n \notin Range(selected)
                                /\ \A m \in 1..(n - 1) : m \in Range(selected)}
        \cup (IF selected = <<>> THEN {} ELSE {selected[1]})

\* the names a deselectExercise call may carry: the name selected last, and
\* the highest name, which is never selected
NamesToDeselect(selected) ==
    (IF selected = <<>> THEN {} ELSE {selected[Len(selected)]})
        \cup {MaxSelectable}

InitSelection ==
    /\ fn = "ExerciseManager"
    /\ NoWorkoutArgs /\ NoRecentArgs /\ NoAnalysisArgs /\ NoDataArgs
    /\ Constructed

NextSelection ==
    \/ \E exerciseName \in NamesToSelect(exerciseManager.selectedExercises) :
           SelectExercise(exerciseName)
    \/ \E exerciseName \in NamesToDeselect(exerciseManager.selectedExercises) :
           DeselectExercise(exerciseName)
    \/ ClearSelected

SpecSelection == InitSelection /\ [][NextSelection]_vars

\* C21: after any sequence of selectExercise, deselectExercise and
\* clearSelected calls at most 8 exercises are selected, and a selectExercise
\* call made while 8 are selected returns false and changes neither the
\* selection nor the recent list.
C21_AtMostEightSelected ==
    [][/\ Len(exerciseManager'.selectedExercises) <= 8
       /\ (fn' = "selectExercise" /\ Len(exerciseManager.selectedExercises) = 8) =>
              /\ ret' = FALSE
              /\ exerciseManager' = exerciseManager]_vars

\* a ninth pick refused
C21_Witness ==
    /\ fn = "selectExercise" /\ pc = "returned" /\ ret = FALSE
    /\ Len(exerciseManager.selectedExercises) = 8
    /\ 9 \notin Range(exerciseManager.selectedExercises)
    /\ 9 \notin Range(exerciseManager.recentExercises)


\* the three stored collections
StoredLists ==
    <<LoadedList(localStorage, "workouts"),
      LoadedList(localStorage, "recentExercises"),
      LoadedList(localStorage, "bodyAnalyses")>>

PhotoInputs == {Null, "data:image/jpeg;base64"}

NewSaveAnalysis(analysis, photo) ==
    [method |-> "saveAnalysis", data |-> analysis, photo |-> photo,
     pc |-> "called", fetches |-> <<>>, responses |-> <<>>,
     status |-> <<>>, local |-> NoValue, warned |-> FALSE]

\* the end of saveAnalysis after the uploads, or without them
AnalysisSaved(call) ==
    [call EXCEPT !.pc = "resolved", !.status = Append(@, "success")]

\* an error of an upload that reaches the outer catch of saveAnalysis
AfterUploadErrorUncaught(call) ==
    [call EXCEPT !.pc = "resolved", !.status = Append(@, "error")]

\* an error of savePhotoToYandex or saveAnalysisToYandex: the inner catch
\* of saveAnalysis logs a warning and the method goes on
AfterUploadError(call) == AnalysisSaved([call EXCEPT !.warned = TRUE])

\* the body uploadFile PUTs for the photo and for the analysis
PhotoBody(call) == [blob |-> call.photo]

AnalysisBody(call) == JSONStringify(call.data)

\* a step of a saveAnalysis call: the request it issues, if any, and the
\* body of the PUT the disk has just completed, if any; when the call ends,
\* loadAnalysisHistory and updateProgressCharts have reloaded
\* storage.bodyAnalyses from store
AnalysisStep(c, call, request, stored, store, manager) ==
    /\ calls' = [i \in DOMAIN calls \cup {c} |->
                    IF i # c THEN calls[i]
                    ELSE IF request # NoBody
                         THEN [call EXCEPT !.fetches = Append(@, request)]
                         ELSE call]
    /\ requests' = IF stored # NoBody
                   THEN Append(requests, Request(c, "stored", stored))
                   ELSE requests
    /\ localStorage' = store
    /\ storage' = IF call.pc = "resolved" /\ call.status # <<"warning">>
                  THEN SetItem(manager, "bodyAnalyses", LoadedList(store, "bodyAnalyses"))
                  ELSE manager
    /\ UNCHANGED <<fn, pc, args, ret, apiState, diskState, exerciseManager,
                   history, workoutArg, locationHash>>

\* yandexAPI.uploadFile up to its first await, called from inside the
\* inner try of saveAnalysis
UploadFileStart(c, call, kind, stored) ==
    IF ~Truthy(token)
    THEN AnalysisStep(c, AfterUploadError(call), NoBody, stored, localStorage, storage)
    ELSE AnalysisStep(c, [call EXCEPT !.pc = kind], Request(c, kind, NoBody), stored,
                      localStorage, storage)

\* saveAnalysis() up to its first await
SaveAnalysis(analysis, photo, now, saveOk) ==
    /\ Len(calls) < MaxCalls
    /\ LET c == Len(calls) + 1
           call == NewSaveAnalysis(analysis, photo)
       IN  IF IsNull(analysis)
           THEN AnalysisStep(c, [call EXCEPT !.pc = "resolved", !.status = <<"warning">>],
                             NoBody, NoBody, localStorage, storage)
           ELSE LET analyses == LoadedList(localStorage, "bodyAnalyses")
                    record   == Spread(analysis,
                                       [id |-> GenerateUUID(UsedIds(localStorage)),
                                        timestamp |-> now])
                    updated  == Append(analyses, record)
                    store    == IF saveOk
                                THEN SetItem(localStorage, "bodyAnalyses",
                                             JSONStringify(updated))
                                ELSE localStorage
                    manager  == SetItem(storage, "bodyAnalyses", updated)
                    saved    == [call EXCEPT !.status = <<"info">>,
                                             !.local = [written |-> saveOk,
                                                        record |-> record]]
                IN  IF Truthy(photo) /\ isAuthenticated
                    THEN AnalysisStep(c, [saved EXCEPT !.pc = "photo"],
                                      Request(c, "photo", NoBody), NoBody, store, manager)
                    ELSE AnalysisStep(c, AnalysisSaved(saved), NoBody, NoBody,
                                      store, manager)

\* fetch(photo) of the data URL
PhotoResponses == {FetchFailed, Response(200, FALSE)}

\* savePhotoToYandex resumes with the blob and calls uploadFile
PhotoResponse(c, resp) ==
    /\ c \in DOMAIN calls /\ calls[c].method = "saveAnalysis" /\ calls[c].pc = "photo"
    /\ resp \in PhotoResponses
    /\ LET call == [calls[c] EXCEPT !.responses = Append(@, resp)]
       IN  IF resp.failed
           THEN AnalysisStep(c, AfterUploadError(call), NoBody, NoBody,
                             localStorage, storage)
           ELSE UploadFileStart(c, call, "photoUrl", NoBody)

\* uploadFile resumes after an upload-URL request and issues its PUT
AnalysisUploadUrlResponse(c, resp) ==
    /\ c \in DOMAIN calls /\ calls[c].method = "saveAnalysis"
    /\ calls[c].pc \in {"photoUrl", "analysisUrl"}
    /\ resp \in UploadUrlResponses
    /\ LET outcome == UploadUrlOutcome(resp)
           call == [calls[c] EXCEPT !.responses = Append(@, resp)]
       IN  IF outcome.kind = "throw"
           THEN AnalysisStep(c, AfterUploadError(call), NoBody, NoBody,
                             localStorage, storage)
           ELSE IF call.pc = "photoUrl"
           THEN AnalysisStep(c, [call EXCEPT !.pc = "photoPut"],
                             Request(c, "photoPut", PhotoBody(call)), NoBody,
                             localStorage, storage)
           ELSE AnalysisStep(c, [call EXCEPT !.pc = "analysisPut"],
                             Request(c, "analysisPut", AnalysisBody(call)), NoBody,
                             localStorage, storage)

\* the PUT of the photo is answered; saveAnalysisToYandex calls uploadFile
PhotoPutResponse(c, resp) ==
    /\ c \in DOMAIN calls /\ calls[c].method = "saveAnalysis"
    /\ calls[c].pc = "photoPut"
    /\ resp \in PutResponses
    /\ LET outcome == PutOutcome(resp)
           call == [calls[c] EXCEPT !.responses = Append(@, resp)]
           stored == IF ~resp.failed /\ Ok(resp) THEN PhotoBody(call) ELSE NoBody
       IN  IF outcome.kind = "throw"
           THEN AnalysisStep(c, AfterUploadError(call), NoBody, stored,
                             localStorage, storage)
           ELSE UploadFileStart(c, call, "analysisUrl", stored)

\* the PUT of the analysis is answered; saveAnalysis ends
AnalysisPutResponse(c, resp) ==
    /\ c \in DOMAIN calls /\ calls[c].method = "saveAnalysis"
    /\ calls[c].pc = "analysisPut"
    /\ resp \in PutResponses
    /\ LET outcome == PutOutcome(resp)
           call == [calls[c] EXCEPT !.responses = Append(@, resp)]
           stored == IF ~resp.failed /\ Ok(resp) THEN AnalysisBody(call) ELSE NoBody
       IN  IF outcome.kind = "throw"
           THEN AnalysisStep(c, AfterUploadError(call), NoBody, stored,
                             localStorage, storage)
           ELSE AnalysisStep(c, AnalysisSaved(call), NoBody, stored,
                             localStorage, storage)

InitAnalysis ==
    /\ fn = "saveAnalysis" /\ pc = "ready" /\ ret = Undefined
    /\ NoWorkoutArgs /\ NoRecentArgs /\ NoAnalysisArgs /\ NoDataArgs
    /\ token \in {Null, "y0_token"}
    /\ userInfo = Null
    /\ isAuthenticated = (token # Null)
    /\ localStorage = EmptyStorage
    /\ Idle

NextAnalysis ==
    \/ \E analysis \in AnalysisInputs \cup {NoData}, photo \in PhotoInputs,
          now \in Clock, saveOk \in BOOLEAN :
          SaveAnalysis(analysis, photo, now, saveOk)
    \/ \E c \in 1..MaxCalls, resp \in PhotoResponses : PhotoResponse(c, resp)
    \/ \E c \in 1..MaxCalls, resp \in UploadUrlResponses :
          AnalysisUploadUrlResponse(c, resp)
    \/ \E c \in 1..MaxCalls, resp \in PutResponses : PhotoPutResponse(c, resp)
    \/ \E c \in 1..MaxCalls, resp \in PutResponses : AnalysisPutResponse(c, resp)
    \/ Logout

SpecAnalysis == InitAnalysis /\ [][NextAnalysis]_vars

\* the saveAnalysis calls that had an analysis to save
SavingCalls == {c \in DOMAIN calls : calls[c].status # <<>> /\ calls[c].status[1] = "info"}

\* an upload of the call failed and was caught
UploadFailed(c) == calls[c].warned

\* C23: a saveAnalysis call has run storage.addBodyAnalysis before it issues
\* its first request; the record a successful local write persisted stays in
\* the persisted list through every later step; and a call whose photo upload
\* or analysis upload failed ends with the status "success", never "error".
C23_UploadFailureKeepsLocalSave ==
    \A c \in SavingCalls :
        /\ calls[c].local # NoValue
        /\ calls[c].local.written =>
             \E i \in DOMAIN LoadedList(localStorage, "bodyAnalyses") :
                LoadedList(localStorage, "bodyAnalyses")[i] = calls[c].local.record
        /\ "error" \notin Range(calls[c].status)
        /\ UploadFailed(c) =>
             /\ calls[c].pc = "resolved"
             /\ calls[c].status = <<"info", "success">>

\* a call whose photo was put on the disk and whose analysis upload then
\* failed: the analysis is persisted locally and the status is "success"
C23_Witness ==
    \E c \in SavingCalls :
        /\ UploadFailed(c)
        /\ calls[c].local.written
        /\ Len(calls[c].fetches) = 5
        /\ requests # <<>>
        /\ calls[c].status = <<"info", "success">>
        /\ Len(LoadedList(localStorage, "bodyAnalyses")) >= 1


\* ---------------------------------------------------------------------
\* The order of the requests of one syncData call
\* ---------------------------------------------------------------------

SyncCalls == {c \in DOMAIN calls : calls[c].method = "syncData"}

\* the kinds of the requests call c has issued, in order
KindsOf(c) == [i \in DOMAIN calls[c].fetches |-> calls[c].fetches[i].kind]

\* the answer to the i-th request of call c has arrived
Answered(c, i) == i \in DOMAIN calls[c].responses

\* the folder creation of call c failed with something other than 409
FolderCreationFailed(c) ==
    /\ Answered(c, 1)
    /\ \/ calls[c].responses[1].failed
       \/ ~Ok(calls[c].responses[1]) /\ calls[c].responses[1].status # 409

\* C24: a syncData call issues the folder-creation request before any upload
\* request; when the folder creation fails with a status other than 409 the
\* call issues no upload request at all; and the PUT of uploadFile is issued
\* only after the upload-URL request was answered OK with an href.
C24_FolderThenUrlThenPut ==
    \A c \in SyncCalls :
        /\ \A i \in DOMAIN KindsOf(c) :
              KindsOf(c)[i] \in {"uploadUrl", "put"} =>
                 i > 1 /\ KindsOf(c)[1] = "createFolder"
        /\ FolderCreationFailed(c) =>
              /\ KindsOf(c) = <<"createFolder">>
              /\ calls[c].pc = "rejected"
        /\ \A i \in DOMAIN KindsOf(c) :
              KindsOf(c)[i] = "put" =>
                 /\ KindsOf(c)[i - 1] = "uploadUrl"
                 /\ Answered(c, i - 1)
                 /\ ~calls[c].responses[i - 1].failed
                 /\ Ok(calls[c].responses[i - 1])
                 /\ calls[c].responses[i - 1].href

\* one call went through the three requests in order, another stopped after
\* a failed folder creation
C24_Witness ==
    /\ \E c \in SyncCalls : KindsOf(c) = <<"createFolder", "uploadUrl", "put">>
    /\ \E c \in SyncCalls :
          /\ FolderCreationFailed(c)
          /\ KindsOf(c) = <<"createFolder">>
          /\ calls[c].pc = "rejected"


\* ---------------------------------------------------------------------
\* YandexAPI's session: init, handleOAuthCallback, getUserInfo, logout
\* ---------------------------------------------------------------------

\* the tokens init is called with
TokenInputs == {Undefined, Null, "", "y0_token"}

\* the fragments the page can be opened with, as the name/value pairs
\* new URLSearchParams(hash.substring(1)) holds
HashInputs ==
    { <<>>,
      <<[name |-> "error", value |-> "access_denied"]>>,
      <<[name |-> "access_token", value |-> ""]>>,
      <<[name |-> "access_token", value |-> "y0_oauth"]>>,
      <<[name |-> "state", value |-> "x"],
        [name |-> "access_token", value |-> "y0_oauth"]>> }

\* params.get(name): the first value with that name, or null
ParamsGet(params, name) ==
    IF \E i \in DOMAIN params : params[i].name = name
    THEN params[CHOOSE i \in DOMAIN params :
                   /\ params[i].name = name
                   /\ \A j \in 1..(i - 1) : params[j].name # name].value
    ELSE Null

\* isAuthenticated after an init that sets the flag whatever the token is
AuthenticatedByInitAlways(tokenArg) == TRUE

\* !!token in init
AuthenticatedByInit(tokenArg) == Truthy(tokenArg)

ApiReturns(method, value) ==
    /\ fn' = method /\ pc' = "returned" /\ ret' = value
    /\ UNCHANGED <<args, localStorage, netState, managerState, workoutArg>>

\* init(token)
init(tokenArg) ==
    /\ token' = tokenArg
    /\ isAuthenticated' = AuthenticatedByInit(tokenArg)
    /\ UNCHANGED <<userInfo, locationHash>>
    /\ ApiReturns("init", Undefined)

\* the session after a callback that signs out when it finds no token
SessionAfterCallbackResetting(accessToken) ==
    IF Truthy(accessToken)
    THEN [token |-> accessToken, isAuthenticated |-> TRUE]
    ELSE [token |-> Null, isAuthenticated |-> FALSE]

\* token and isAuthenticated after handleOAuthCallback read accessToken
SessionAfterCallback(accessToken) ==
    IF Truthy(accessToken)
    THEN [token |-> accessToken, isAuthenticated |-> TRUE]
    ELSE [token |-> token, isAuthenticated |-> isAuthenticated]

\* handleOAuthCallback(); replaceState drops the fragment after a success
handleOAuthCallback ==
    LET accessToken == ParamsGet(locationHash, "access_token")
        session == SessionAfterCallback(accessToken)
    IN  /\ token' = session.token
        /\ isAuthenticated' = session.isAuthenticated
        /\ userInfo' = userInfo
        /\ locationHash' = IF Truthy(accessToken) THEN <<>> ELSE locationHash
        /\ ApiReturns("handleOAuthCallback",
                      IF Truthy(accessToken)
                      THEN [success |-> TRUE, token |-> accessToken]
                      ELSE [success |-> FALSE, error |-> "No access token found"])

\* logout()
logout ==
    /\ token' = Null
    /\ userInfo' = Null
    /\ isAuthenticated' = FALSE
    /\ locationHash' = locationHash
    /\ ApiReturns("logout", Undefined)

\* the browser opens the page with another fragment (the OAuth redirect)
Navigate(hash) ==
    /\ locationHash # hash
    /\ locationHash' = hash
    /\ UNCHANGED <<fn, pc, ret, args, apiState, localStorage, netState,
                   managerState, workoutArg>>

\* getUserInfo() up to its await
GetUserInfoStart ==
    /\ Len(calls) < MaxCalls
    /\ LET c == Len(calls) + 1
           call == NewCall("getUserInfo", NoData)
       IN  calls' = Append(calls,
                           IF ~Truthy(token) THEN Rejected(call, "No token provided")
                           ELSE [call EXCEPT !.pc = "userInfo",
                                             !.fetches = <<Request(c, "userInfo", NoBody)>>])
    /\ UNCHANGED <<fn, pc, ret, args, apiState, localStorage, diskState, requests,
                   managerState, workoutArg, locationHash>>

UserInfoResponses == {FetchFailed, Response(401, FALSE), Response(200, FALSE)}

\* getUserInfo resumes after its fetch and keeps the user it was told
GetUserInfoResponse(c, resp) ==
    /\ c \in DOMAIN calls /\ calls[c].method = "getUserInfo" /\ calls[c].pc = "userInfo"
    /\ resp \in UserInfoResponses
    /\ LET call == [calls[c] EXCEPT !.responses = Append(@, resp)]
           user == "user"   \* the object the response body parses to
       IN  IF resp.failed \/ ~Ok(resp)
           THEN /\ calls' = [calls EXCEPT ![c] =
                               Rejected(call, IF resp.failed THEN "fetch rejected"
                                              ELSE HttpError("HTTP ", resp))]
                /\ userInfo' = userInfo
           ELSE /\ calls' = [calls EXCEPT ![c] = Resolved(call, user)]
                /\ userInfo' = user
    /\ UNCHANGED <<fn, pc, ret, args, token, isAuthenticated, localStorage, diskState,
                   requests, managerState, workoutArg, locationHash>>

InitAuth ==
    /\ fn = "YandexAPI"
    /\ NoWorkoutArgs /\ NoRecentArgs /\ NoAnalysisArgs /\ NoDataArgs
    /\ Constructed

NextAuth ==
    \/ \E tokenArg \in TokenInputs : init(tokenArg)
    \/ handleOAuthCallback
    \/ logout
    \/ \E hash \in HashInputs : Navigate(hash)
    \/ GetUserInfoStart
    \/ \E c \in 1..MaxCalls, resp \in UserInfoResponses : GetUserInfoResponse(c, resp)

SpecAuth == InitAuth /\ [][NextAuth]_vars

\* C25: a handleOAuthCallback that finds no access_token in the fragment
\* (none, or an empty one) returns success = false and leaves token and
\* isAuthenticated as they were.
C25_CallbackWithoutTokenChangesNothing ==
    [][(/\ handleOAuthCallback
        /\ ~Truthy(ParamsGet(locationHash, "access_token"))) =>
          /\ ret'.success = FALSE
          /\ token' = token
          /\ isAuthenticated' = isAuthenticated]_vars

\* a signed-in session after a callback on a fragment without access_token
C25_Witness ==
    /\ fn = "handleOAuthCallback" /\ pc = "returned"
    /\ ret = [success |-> FALSE, error |-> "No access token found"]
    /\ locationHash = <<[name |-> "error", value |-> "access_denied"]>>
    /\ token = "y0_token"
    /\ isAuthenticated

\* C27: in every state init, handleOAuthCallback and logout lead to,
\* isAuthenticated is true exactly when a non-empty token is held; and a
\* logout leaves token and userInfo null and isAuthenticated false.
C27_AuthenticatedIffToken ==
    /\ [](isAuthenticated = Truthy(token))
    /\ [][logout => /\ token' = Null
                    /\ userInfo' = Null
                    /\ isAuthenticated' = FALSE]_vars

\* a logout of a session that held a token and a user, after a callback
\* had signed it in
C27_Witness ==
    /\ fn = "logout" /\ pc = "returned"
    /\ token = Null /\ userInfo = Null /\ ~isAuthenticated
    /\ \E c \in DOMAIN calls : calls[c].pc = "resolved"
    /\ locationHash = <<>>


\* ---------------------------------------------------------------------
\* Very large set values
\* ---------------------------------------------------------------------

\* the workout of the edge-case test: one named exercise with the single
\* set {weight: 999999, reps: 999999}
LargeWorkout ==
    [exercises |-> JsArray(<<[exercise |-> JsString("bench"),
                              sets |-> JsArray(<<[weight |-> JsNumber(999999),
                                                  reps |-> JsNumber(999999)]>>)]>>)]

\* C26: validateWorkout accepts (isValid = true) the workout whose single
\* exercise has one set with weight 999999 and reps 999999.
C26_LargeValuesAreValid ==
    (fn = "validateWorkout" /\ pc = "returned" /\ workoutArg = LargeWorkout) =>
        ret.isValid = TRUE


\* ---------------------------------------------------------------------
\* mergeWorkouts with its arguments exchanged
\* ---------------------------------------------------------------------

\* no local and remote record of one id were written at the same instant
NoTiedConflicts == \A p \in WorkoutConflicts : EffectiveTime(p[1]) # EffectiveTime(p[2])

\* C28: for workout lists A and B with pairwise distinct ids within each list
\* and no same-id pair with equal effective timestamps, mergeWorkouts(A, B)
\* and mergeWorkouts(B, A) contain exactly the same records.
C28_MergeSidesExchangeable ==
    (/\ Returned("mergeWorkouts")
     /\ DistinctIds(localWorkouts) /\ DistinctIds(remoteWorkouts)
     /\ NoTiedConflicts)
    => /\ Range(ret) = Range(mergeWorkouts(remoteWorkouts, localWorkouts))
       /\ Len(ret) = Len(mergeWorkouts(remoteWorkouts, localWorkouts))

\* a merge of two lists that share an id, where the local record is the
\* newer one and the other order of the arguments keeps it too
C28_Witness ==
    /\ Returned("mergeWorkouts")
    /\ NoTiedConflicts
    /\ \E p \in WorkoutConflicts :
          /\ EffectiveTime(p[1]) > EffectiveTime(p[2])
          /\ p[1] \in Range(ret)
          /\ p[1] \in Range(mergeWorkouts(remoteWorkouts, localWorkouts))
    /\ Len(ret) = 3


\* ---------------------------------------------------------------------
\* A save that cannot write
\* ---------------------------------------------------------------------

\* the collection each add method hands to saveWorkouts, saveRecentExercises
\* or saveBodyAnalyses, whose result it returns
SavedCollection ==
    [addWorkout        |-> "workouts",
     addRecentExercise |-> "recentExercises",
     addBodyAnalysis   |-> "bodyAnalyses"]

\* C29: when saveWorkouts, saveRecentExercises or saveBodyAnalyses cannot
\* write and returns false, the persisted collection is as before and the
\* manager's in-memory copy of that collection equals the persisted one.
C29_FailedSaveChangesNothing ==
    [][(/\ fn' \in DOMAIN SavedCollection
        /\ pc' = "returned"
        /\ ret' = FALSE) =>
          LET key == SavedCollection[fn']
          IN  /\ LoadedList(localStorage', key) = LoadedList(localStorage, key)
              /\ key \in DOMAIN storage'
              /\ storage'[key] = LoadedList(localStorage', key)]_vars


\* ---------------------------------------------------------------------
\* The configuration: loadConfig and saveConfig on one StorageManager,
\* over a localStorage that may hold the configuration of an earlier page
\* load
\* ---------------------------------------------------------------------

DEFAULT_CONFIG ==
    [yandexToken       |-> "",
     yandexPath        |-> "/MyFitness/workouts.json",
     autoSync          |-> TRUE,
     syncInterval      |-> 15,
     defaultCycle      |-> 1,
     theme             |-> "dark",
     userInfo          |-> Null,
     huggingFaceApiKey |-> "",
     aiModel           |-> "microsoft/BiomedCLIP-PubMedBERT_256-vit_base_patch16_224"]

\* the partial configurations saveConfig is called with
ConfigPartials ==
    {[theme |-> "light"], [theme |-> "dark"], [autoSync |-> FALSE],
     [syncInterval |-> 10, autoSync |-> TRUE]}

\* what an earlier page load left under STORAGE_KEYS.CONFIG
EarlierConfigs == {[theme |-> "light", autoSync |-> FALSE], DEFAULT_CONFIG}

\* the configuration in localStorage, as an object; no key when none is stored
PersistedConfig(store) ==
    IF "myfitness_config" \in DOMAIN store /\ "json" \in DOMAIN store["myfitness_config"]
    THEN JSONParse(store["myfitness_config"])
    ELSE [k \in {} |-> Null]

\* loadConfig()
LoadConfig ==
    LET loaded == IF "myfitness_config" \notin DOMAIN localStorage
                  THEN DEFAULT_CONFIG
                  ELSE IF "json" \notin DOMAIN localStorage["myfitness_config"]
                  THEN DEFAULT_CONFIG
                  ELSE Spread(DEFAULT_CONFIG, JSONParse(localStorage["myfitness_config"]))
    IN  /\ storage' = SetItem(storage, "config", loaded)
        /\ UNCHANGED <<localStorage, history>>
        /\ StorageReturns("loadConfig", loaded)

InitConfig ==
    /\ fn = "StorageManager" /\ pc = "ready" /\ ret = Undefined
    /\ NoWorkoutArgs /\ NoRecentArgs /\ NoAnalysisArgs /\ NoDataArgs
    /\ token = Null /\ userInfo = Null /\ isAuthenticated = FALSE
    /\ localStorage \in {EmptyStorage, [myfitness_config |-> InvalidJSON]}
                        \cup {[myfitness_config |-> JSONStringify(c)] : c \in EarlierConfigs}
    /\ Idle

NextConfig ==
    \/ LoadConfig
    \/ \E config \in ConfigPartials, saveOk \in BOOLEAN : SaveConfig(config, saveOk)

SpecConfig == InitConfig /\ [][NextConfig]_vars

\* C30: in any order of loadConfig and saveConfig calls, a saveConfig(partial)
\* leaves every configuration key that was persisted before the call and is
\* not named in partial with its persisted value.
C30_SaveConfigKeepsOtherKeys ==
    [][\A config \in ConfigPartials, saveOk \in BOOLEAN :
          SaveConfig(config, saveOk) =>
             \A k \in DOMAIN PersistedConfig(localStorage) \ DOMAIN config :
                /\ k \in DOMAIN PersistedConfig(localStorage')
                /\ PersistedConfig(localStorage')[k] = PersistedConfig(localStorage)[k]]_vars

====
